---- MODULE Spec2Model ----
(***************************************************************************)
(* RoRServerBot: the protocol connection layer (RoRConnection), the        *)
(* reconnect driver (RoRClient.__aenter__) and the packet framer, as a     *)
(* state machine of the cooperative asyncio tasks the code creates.        *)
(*                                                                         *)
(* Every pc value of a task is a suspension point of the code (an await    *)
(* that can yield); the code between two suspension points runs without    *)
(* interleaving and is one action.                                         *)
(***************************************************************************)
EXTENDS Integers, Sequences, FiniteSets, TLC

(***************************************************************************)
(* Bounds of the model                                                     *)
(***************************************************************************)
\* packets (or the end of stream) the server puts on the socket in one run
MaxInbound == 4
\* heartbeats the heartbeat loop sends in one run
MaxHeartbeats == 1
\* announcements the frame_step handler sends in one run
MaxAnnouncements == 1
\* API calls (send_chat, register_stream) the body of the scope makes
MaxCalls == 1

(***************************************************************************)
(* Program constants                                                       *)
(***************************************************************************)
\* RoRClientConfig.reconnection_tries
ReconnectionTries == 3
\* RoRConnection._stream_id at construction: ids under 10 are reserved
FirstStreamId == 10
\* UserInfo.unique_id before the server assigns one
DefaultUniqueId == 0
\* UserInfo.color_num before the server assigns one
DefaultColorNum == -1
\* ActorStreamStatus.SUCCESS
SUCCESS == 1

None == "None"

\* the tasks: the task running `async with client`, the three loops of the
\* task group, and one event-handler task (pyee schedules async handlers
\* as tasks of their own, outside the task group)
Tasks == {"main", "reader", "heartbeat", "frame", "handler"}
GroupTasks == {"reader", "heartbeat", "frame"}

\* a task that has ended: by an exception, by cancellation, or by returning
Ended == {"failed", "cancelled", "done"}

Refusals == {"SERVER_FULL", "WRONG_PASSWORD", "WRONG_VERSION", "BANNED"}

(***************************************************************************)
(* Records                                                                 *)
(***************************************************************************)
\* Vector3(): a position is the tuple of its x, y and z
Origin == <<0, 0, 0>>

\* a StreamRegister: the fields of the payload, and the actor type, position
\* and rotation the registry keeps on the object
NoStream ==
    [type |-> "NONE", status |-> 0, origin_source_id |-> 0,
     origin_stream_id |-> 0, name |-> "", actor_type |-> "none",
     position |-> Origin, rotation |-> 0]

NoInfo ==
    [unique_id |-> DefaultUniqueId, color_num |-> DefaultColorNum,
     username |-> ""]

\* the unique ids and stream ids of the model
Uids == {0, 7, 42}
Sids == FirstStreamId .. (FirstStreamId + 2 + MaxCalls)

\* CurrentStream(): the sentinel
NoCurrent == [unique_id |-> -1, stream_id |-> -1]

\* a User of the registry; present is FALSE for a uid that is no key of _users
\* (`stats: UserStats = UserStats()` is built once, with the class, and
\* copied for each User: online_since is that time, 0, for every user)

NoUser ==
    [present |-> FALSE, info |-> NoInfo, character_stream_id |-> -1,
     chat_stream_id |-> -1, streams |-> [s \in Sids |-> NoStream],
     current_stream |-> NoCurrent, meters_walked |-> 0, meters_driven |-> 0,
     meters_sailed |-> 0, meters_flown |-> 0, online_since |-> 0]

NewUser(info) == [NoUser EXCEPT !.present = TRUE, !.info = info]

\* the payload of a packet that carries neither a UserInfo nor a
\* StreamRegister: none, or stream data or text by kind
NoPayload == [kind |-> "none"]

\* a packet: the header fields, and the decoded payload by kind
Packet(type, source, stream_id, info, stream) ==
    [type |-> type, source |-> source, stream_id |-> stream_id,
     info |-> info, stream |-> stream, data |-> NoPayload]

NoPacket == Packet("NONE", 0, 0, NoInfo, NoStream)

\* the UserInfo values a WELCOME may carry
WelcomeInfos ==
    {[unique_id |-> 7, color_num |-> c, username |-> "bot"] : c \in {-1, 0}}
\* the UserInfo values of peers
PeerInfos == {[unique_id |-> 42, color_num |-> 3, username |-> "peer"]}
\* the stream registers a peer may send
PeerStream(type, sid, name) ==
    [NoStream EXCEPT !.type = type, !.origin_source_id = 42,
                     !.origin_stream_id = sid, !.name = name]

PeerStreams ==
    {PeerStream(t, 12, "fancy.truck") : t \in {"ACTOR", "CHARACTER", "CHAT"}}
    \cup {PeerStream("ACTOR", 12, "noext")}

\* what the server may put on the socket
ServerPackets ==
    {Packet("HELLO", 0, 0, NoInfo, NoStream)}
    \cup {Packet("WELCOME", i.unique_id, 0, i, NoStream) : i \in WelcomeInfos}
    \cup {Packet(r, 0, 0, NoInfo, NoStream) : r \in Refusals}
    \cup {Packet("USER_JOIN", i.unique_id, 0, i, NoStream) : i \in PeerInfos}
    \cup {Packet("USER_LEAVE", u, 0, NoInfo, NoStream) : u \in {7, 42}}
    \cup {Packet("STREAM_REGISTER", s.origin_source_id, s.origin_stream_id,
                 NoInfo, s) : s \in PeerStreams}
    \cup {Packet("EOF", 0, 0, NoInfo, NoStream)}

VARIABLES
    pc,             \* task -> where the task is suspended
    ret,            \* task -> where the task continues after its _send
    pending,        \* task -> the packet of the task's _send
    cancelReq,      \* tasks with a cancellation to be delivered
    attempt,        \* RoRClient.__aenter__: the loop variable
    opens,          \* calls of asyncio.open_connection made so far
    sleeps,         \* reconnection_interval sleeps made so far
    mainErr,        \* the exception the main task ended with
    tgEntered,      \* TaskGroup._entered
    tgErrors,       \* TaskGroup._errors is not empty
    tgAborting,     \* TaskGroup._aborting
    tgParentCancel, \* TaskGroup._parent_cancel_requested
    exitType,       \* exc_type given to __aexit__
    lockHolder,     \* _writer_lock: the task holding it
    lockWaiters,    \* _writer_lock: the queue of waiting tasks
    writerClosed,   \* _writer.close() was called
    server_info,    \* _server_info
    user_info,      \* _user_info
    stream_id,      \* _stream_id
    is_connected,   \* _is_connected
    users,          \* _users: uid -> User
    inbox,          \* bytes on the socket the reader has not read, as packets
    nIn,            \* packets the server has sent
    sent,           \* the outbound wire: one entry per writer.write(data)
    rx,             \* packets handed to _parse_packet, in order
    events,         \* events emitted on the event emitter, in order
    assigned,       \* stream ids returned by register_stream, in order
    regStream,      \* register_stream: the stream of the call in progress
    nHeartbeats,    \* heartbeats sent
    nAnnouncements, \* announcements sent
    nCalls,         \* API calls made by the body
    framed,         \* framer: the packets the peer has put on the stream
    wire,           \* framer: their bytes not yet delivered to the socket
    header,         \* framer: the header __reader_loop has unpacked
    emitter,        \* _event_emitter: listeners, calls made, tasks scheduled
    auth,           \* client: auth_status of the user who issues commands
    chats,          \* client: the messages given to send_chat, in order
    recorder,       \* client: the operations made on stream_recorder
    announcer,      \* client: _announcements_handler
    hb,             \* heartbeat loop: the clock, curr_time, delta, next wake
    global_stats,   \* _global_stats: usernames, user_count, distances
    countdown,      \* client: the countdown of a COUNTDOWN command
    fclock          \* frame step loop: the clock, curr_time, delta, deltas emitted

vars == <<pc, ret, pending, cancelReq, attempt, opens, sleeps, mainErr,
          tgEntered, tgErrors, tgAborting, tgParentCancel, exitType, lockHolder,
          lockWaiters, writerClosed, server_info, user_info, stream_id,
          is_connected, users, inbox, nIn, sent, rx, events, assigned,
          regStream, nHeartbeats, nAnnouncements, nCalls, framed, wire,
          header, emitter, auth, chats, recorder, announcer, hb,
          global_stats, countdown, fclock>>

conn == <<server_info, user_info, stream_id, is_connected, users>>
logs == <<sent, rx, events, assigned>>
driver == <<attempt, opens, sleeps, mainErr>>
group == <<tgEntered, tgErrors, tgAborting, tgParentCancel, exitType>>
lock == <<lockHolder, lockWaiters>>
counters == <<nHeartbeats, nAnnouncements, nCalls>>
net == <<inbox, nIn>>
framing == <<framed, wire, header>>
client == <<auth, chats, recorder, announcer>>
outside == <<client, hb, global_stats, countdown, fclock>>

NoHeader == [type |-> 0, source |-> 0, stream_id |-> 0, size |-> 0]

(***************************************************************************)
(* The event emitter: the AsyncIOEventEmitter of RoRConnection             *)
(***************************************************************************)
\* what a listener does when it is called: a function that returns or
\* raises, or a coroutine function whose task returns or raises
Kinds == {"returns", "raises", "async_returns", "async_raises"}

\* (a variant of AddedListeners that adds no listener for `error`)
NoErrorListener == [e \in {"new_listener"} |-> <<"returns">>]

\* __init__: _new_listener and _error are added; both log and return
AddedListeners == [e \in {"new_listener", "error"} |-> <<"returns">>]

\* the emitter after __init__: no call made, no task scheduled
Constructor == [listeners |-> AddedListeners, invoked |-> <<>>, waiting |-> {}]

\* listeners(event): the listeners of the event in registration order
Listeners(em, event) ==
    IF event \in DOMAIN em.listeners THEN em.listeners[event] ELSE <<>>

\* the call of the i-th listener of an event
Call(event, i) == <<event, i>>

\* what an emission leaves: err when an exception reaches the caller
Result(err, em) == [err |-> err, em |-> em]

\* emit('error', exc): the listeners of `error` are called (_error alone,
\* which logs the exception); with no listener the emitter raises exc
EmitError(em) ==
    LET n == Len(Listeners(em, "error")) IN
    Result(n = 0,
           [em EXCEPT !.invoked = @ \o [i \in 1 .. n |-> Call("error", i)]])

\* the task of a coroutine listener, kept in _waiting until it is done
Future(event, i, kind, at) ==
    [event |-> event, i |-> i, kind |-> kind, at |-> at]

\* _emit_run: the listener is called; an exception it raises is emitted as
\* `error`, a coroutine it returns is scheduled as a task
EmitRun(em, event, i) ==
    LET kind == em.listeners[event][i]
        called == [em EXCEPT !.invoked = Append(@, Call(event, i))]
    IN CASE kind = "returns" -> Result(FALSE, called)
         [] kind = "raises" -> EmitError(called)
         [] OTHER ->
              Result(FALSE,
                     [called EXCEPT !.waiting = @ \cup
                         {Future(event, i, kind, Len(called.invoked))}])

\* _call_handlers: the listeners of the event, from the i-th on, in
\* registration order; an exception that leaves _emit_run ends the calls
RECURSIVE CallHandlers(_, _, _)
CallHandlers(em, event, i) ==
    IF i > Len(Listeners(em, event))
    THEN Result(FALSE, em)
    ELSE LET r == EmitRun(em, event, i)
         IN IF r.err THEN r ELSE CallHandlers(r.em, event, i + 1)

\* _emit: the event goes to the emitter at the call site
Emit(em, event) == CallHandlers(em, event, 1)

\* the emissions of a handler: one _emit for each event of evs, in order
RECURSIVE EmitAll(_, _)
EmitAll(em, evs) ==
    IF evs = <<>>
    THEN Result(FALSE, em)
    ELSE LET r == Emit(em, Head(evs).name)
         IN IF r.err THEN r ELSE EmitAll(r.em, Tail(evs))

\* GlobalStats()
NoStats ==
    [usernames |-> {}, user_count |-> 0, connection_times |-> <<>>,
     meters_walked |-> 0, meters_driven |-> 0, meters_sailed |-> 0,
     meters_flown |-> 0]

\* GlobalStats.add_user
GlobalAddUser(gs, username) ==
    [gs EXCEPT !.usernames = @ \cup {username}, !.user_count = @ + 1]

\* the connection and the client after construction
(***************************************************************************)
(* The time of the heartbeat loop, in ticks of 50 ms                       *)
(***************************************************************************)
\* asyncio.sleep(0.1) and heartbeat_interval = 1.0
SleepTicks == 2
IntervalTicks == 20

(***************************************************************************)
(* The client: the announcements and the commands of RoRClient             *)
(***************************************************************************)
\* the messages of the configuration: message i is the i-th of the list
Message(i) == <<"message", i>>

\* AnnouncementsHandler.__init__; elapsed is the delta the frame step loop
\* has given the handler so far
Handler(delay, enabled, n) ==
    [delay |-> delay, enabled |-> enabled, messages |-> [i \in 1 .. n |-> Message(i)],
     time |-> 0, idx |-> 0, elapsed |-> 0]

\* the handler of a client whose announcements are disabled
NoAnnouncer == Handler(1, FALSE, 0)

\* what try_next leaves: the handler, the announcement or None, and err
\* when messages[idx] raises IndexError
Tried(h, message, err) == [h |-> h, message |-> message, err |-> err]

\* (a variant of NextIdx that advances before the message is read)
NextIdxFirst(h) == (h.idx + 1) % Len(h.messages)

\* the index of the message try_next returns
NextIdx(h) == h.idx

\* try_next(delta)
TryNext(h, delta) ==
    LET timed == [h EXCEPT !.time = @ + delta, !.elapsed = @ + delta] IN
    IF ~h.enabled
    THEN Tried([h EXCEPT !.elapsed = @ + delta], "None", FALSE)
    ELSE IF timed.time >= h.delay
    THEN IF h.messages = <<>>
         THEN Tried([timed EXCEPT !.time = 0], "None", TRUE)
         ELSE Tried([timed EXCEPT !.time = 0,
                                  !.idx = IF h.idx = Len(h.messages) - 1
                                          THEN 0
                                          ELSE h.idx + 1],
                    <<"ANNOUNCEMENT", h.messages[NextIdx(h) + 1]>>, FALSE)
    ELSE Tried(timed, "None", FALSE)

\* AuthStatus: the flags of an auth_status; NONE is the empty set
Flags == {"ADMIN", "RANKED", "MOD", "BOT", "BANNED"}

\* `a in mask` of an IntFlag: a & mask == a
Within(a, mask) == a \cap mask = a

\* (a variant of Permitted that asks for one of the flags of the mask)
PermittedAny(a) == a \cap {"MOD", "ADMIN"} # {}

\* `user.auth_status not in AuthStatus.MOD | AuthStatus.ADMIN`, negated
Permitted(a) == Within(a, {"MOD", "ADMIN"})

\* RecordingCommand
Subcommands == {"start", "stop", "pause", "resume", "play"}

\* what a command leaves: the message given to send_chat, the operation
\* made on the stream recorder, the exception raised (or "None" for each)
Done(chat, op, err) == [chat |-> chat, op |-> op, err |-> err]

Denied == Done("You do not have permission to do that", "None", "None")
Invalid == Done("None", "None", "InvalidArgumentsError")

\* _execute_command for Command.RECORD
Record(a, help, args) ==
    IF help THEN Done("usage", "None", "None")
    ELSE IF ~Permitted(a) THEN Denied
    ELSE IF Len(args) \notin {1, 2} THEN Invalid
    ELSE IF args[1] \notin Subcommands THEN Done("None", "None", "ValueError")
    ELSE CASE args[1] = "start" -> Done("Started", "start_recording", "None")
           [] args[1] = "stop" -> Done("Stopped", "stop_recording", "None")
           [] args[1] = "pause" -> Done("Paused", "pause_recording", "None")
           [] args[1] = "resume" -> Done("Resumed", "resume_recording", "None")
           [] OTHER -> Invalid

\* _execute_command for Command.PLAYBACK
Playback(a, help, args) ==
    IF help THEN Done("usage", "None", "None")
    ELSE IF ~Permitted(a) THEN Denied
    ELSE IF args = <<>> THEN Invalid
    ELSE IF args[1] \notin Subcommands THEN Done("None", "None", "ValueError")
    ELSE IF Len(args) > 2 THEN Invalid
    ELSE CASE args[1] = "play" -> Done("None", "play_recording", "None")
           [] args[1] = "stop" -> Done("None", "stop_playback", "None")
           [] args[1] = "pause" -> Done("None", "pause_playback", "None")
           [] args[1] = "resume" -> Done("None", "resume_playback", "None")
           [] OTHER -> Invalid

\* _execute_command for Command.RECORDINGS
Recordings(a, help, args) ==
    IF help THEN Done("usage", "None", "None")
    ELSE IF ~Permitted(a) THEN Denied
    ELSE IF args # <<>> THEN Invalid
    ELSE Done("recordings", "available_recordings", "None")

ExecuteCommand(command, a, help, args) ==
    CASE command = "record" -> Record(a, help, args)
      [] command = "playback" -> Playback(a, help, args)
      [] command = "recordings" -> Recordings(a, help, args)

\* __heartbeat_loop before its first sleep, at time 0: start_time and
\* curr_time are the time, delta is 0, the first wake is due a sleep later
Started == [now |-> 0, curr_time |-> 0, delta |-> 0, due |-> SleepTicks]

\* the time of the frame step loop, in ticks of 10 ms: asyncio.sleep(0.01)
\* and 1 / STABLE_FPS, 50 ms
FrameSleepTicks == 1
FrameTicks == 5

\* __frame_step_loop before its first sleep, at time 0: start_time and
\* curr_time are the time, delta is 0 and nothing was emitted
FrameStarted ==
    [now |-> 0, start_time |-> 0, curr_time |-> 0, delta |-> 0,
     due |-> FrameSleepTicks, emitted |-> <<>>]

\* no COUNTDOWN command was given: there is no handler of it
NoCountdown ==
    [n |-> 0, seconds |-> 0, time |-> 0, listening |-> FALSE, removed |-> 0,
     frames |-> 0, suspended |-> <<>>]

\* RoRClient.__init__: no command was run, no announcement made; the
\* heartbeat loop has not run
ClientConstructed ==
    /\ auth = {}
    /\ chats = <<>>
    /\ recorder = <<>>
    /\ announcer = NoAnnouncer
    /\ hb = Started
    /\ countdown = NoCountdown
    /\ fclock = FrameStarted

Constructed ==
    /\ ret = [t \in Tasks |-> "none"]
    /\ pending = [t \in Tasks |-> NoPacket]
    /\ cancelReq = {}
    /\ attempt = 0
    /\ opens = 0
    /\ sleeps = 0
    /\ mainErr = None
    /\ tgEntered = FALSE
    /\ tgErrors = FALSE
    /\ tgAborting = FALSE
    /\ tgParentCancel = FALSE
    /\ exitType = None
    /\ lockHolder = None
    /\ lockWaiters = <<>>
    /\ writerClosed = FALSE
    /\ server_info = None
    /\ user_info = NoInfo
    /\ stream_id = FirstStreamId
    /\ is_connected = FALSE
    /\ users = [u \in Uids |-> NoUser]
    /\ inbox = <<>>
    /\ nIn = 0
    /\ sent = <<>>
    /\ rx = <<>>
    /\ events = <<>>
    /\ assigned = <<>>
    /\ regStream = NoStream
    /\ nHeartbeats = 0
    /\ nAnnouncements = 0
    /\ nCalls = 0
    /\ emitter = Constructor
    /\ global_stats = NoStats
    /\ ClientConstructed

Init ==
    /\ pc = [t \in Tasks |-> IF t = "main" THEN "client_enter" ELSE "init"]
    /\ Constructed
    /\ framed = <<>>
    /\ wire = <<>>
    /\ header = NoHeader


(***************************************************************************)
(* The writer lock and _send                                               *)
(***************************************************************************)
\* (a variant of Acquire that takes no lock: what _send would do without it)
AcquireNoLock(h, w, t) ==
    [pc |-> "drain", holder |-> t, waiters |-> w, wrote |-> TRUE]

\* `async with self._writer_lock` of task t, the lock held by h (or free) and
\* w the queue of its waiters: an asyncio.Lock is taken at once only when it
\* is free and nobody waits for it; otherwise the task joins the queue
Acquire(h, w, t) ==
    IF h = None /\ w = <<>>
    THEN [pc |-> "drain", holder |-> t, waiters |-> w, wrote |-> TRUE]
    ELSE [pc |-> "lock_wait", holder |-> h, waiters |-> Append(w, t),
          wrote |-> FALSE]

\* leaving `async with self._writer_lock`, by return or by an exception
Release(h, t) == IF h = t THEN None ELSE h

Without(w, t) == SelectSeq(w, LAMBDA x : x # t)

\* `await self._send(pkt)` of task t up to its first suspension, from the
\* lock state (h, w): with the lock it writes header and payload in one
\* writer.write(data) and suspends in drain(); r is where t continues
SendFrom(t, pkt, r, h, w, pcs) ==
    LET a == Acquire(h, w, t) IN
    /\ pc' = [pcs EXCEPT ![t] = a.pc]
    /\ ret' = [ret EXCEPT ![t] = r]
    /\ pending' = [pending EXCEPT ![t] = pkt]
    /\ lockHolder' = a.holder
    /\ lockWaiters' = a.waiters
    /\ sent' = IF a.wrote THEN Append(sent, pkt) ELSE sent

Send(t, pkt, r) == SendFrom(t, pkt, r, lockHolder, lockWaiters, pc)

\* where a task is once its _send has returned to code that suspends again
\* before it changes anything
SimpleRets ==
    {"sleep", "running", "done", "hello_poll", "welcome_poll", "aexit_join"}

\* task t is at p: suspended there, or its _send is returning to p
At(t, p) == pc[t] = p \/ (pc[t] = "drain" /\ ret[t] = p)

\* a waiting task gets the lock: write and drain
LockAcquired(t) ==
    /\ pc[t] = "lock_wait"
    /\ t \notin cancelReq
    /\ lockHolder = None
    /\ lockWaiters # <<>>
    /\ Head(lockWaiters) = t
    /\ lockHolder' = t
    /\ lockWaiters' = Tail(lockWaiters)
    /\ sent' = Append(sent, pending[t])
    /\ pc' = [pc EXCEPT ![t] = "drain"]
    /\ UNCHANGED <<ret, pending, cancelReq, driver, group, writerClosed, conn,
                   net, rx, events, assigned, regStream, counters>>
    /\ UNCHANGED <<framing, emitter, outside>>

\* drain() returns, the lock is released, _send returns
Drained(t) ==
    /\ pc[t] = "drain"
    /\ t \notin cancelReq
    /\ ret[t] \in SimpleRets
    /\ lockHolder' = Release(lockHolder, t)
    /\ pc' = [pc EXCEPT ![t] = ret[t]]
    /\ UNCHANGED <<ret, pending, cancelReq, driver, group, lockWaiters,
                   writerClosed, conn, net, logs, regStream, counters>>
    /\ UNCHANGED <<framing, emitter, outside>>

(***************************************************************************)
(* The task group                                                          *)
(***************************************************************************)
\* the tasks of the group that were created and have not ended
Alive == {g \in GroupTasks : pc[g] \notin Ended \cup {"init"}}

\* TaskGroup._on_task_done for task t that ended with an exception: the
\* first error aborts the group (cancels the other tasks) and cancels the
\* parent task, unless the parent has ended; a parent waiting in
\* TaskGroup.__aexit__ absorbs the cancellation and goes on waiting
AbortSet(t) ==
    IF pc["main"] \in Ended \/ tgAborting \/ tgParentCancel
    THEN {}
    ELSE (Alive \ {t})
         \cup (IF pc["main"] = "aexit_join" THEN {} ELSE {"main"})

\* task t of the group raises
Raise(t) ==
    /\ pc' = [pc EXCEPT ![t] = "failed"]
    /\ cancelReq' = cancelReq \cup AbortSet(t)
    /\ tgErrors' = TRUE
    /\ tgAborting' = (tgAborting \/ pc["main"] \notin Ended)
    /\ tgParentCancel' = (tgParentCancel \/ pc["main"] \notin Ended)

\* a cancelled task of the group, or the handler's, resumes with
\* CancelledError at its suspension point and ends; a lock it holds is
\* released, a place in the queue given up
Cancelled(t) ==
    /\ t \in cancelReq
    /\ t # "main"
    /\ pc[t] \notin Ended
    /\ pc' = [pc EXCEPT ![t] = "cancelled"]
    /\ cancelReq' = cancelReq \ {t}
    /\ lockHolder' = Release(lockHolder, t)
    /\ lockWaiters' = Without(lockWaiters, t)
    /\ UNCHANGED <<ret, pending, driver, group, writerClosed, conn, net, logs,
                   regStream, counters>>
    /\ UNCHANGED <<framing, emitter, outside>>

(***************************************************************************)
(* The registry                                                            *)
(***************************************************************************)
\* TruckFile.from_filename: the actor type is the extension of the file
\* name; a name without one of the known extensions is a validation error
ActorTypeOf(name) ==
    CASE name = "fancy.truck" -> "truck"
      [] name = "bot.truck" -> "truck"
      [] name = "raft.boat" -> "boat"
      [] name = "jet.airplane" -> "airplane"
      [] OTHER -> "invalid"

\* User.add_stream
UserAddStream(user, stream) ==
    LET st == IF stream.type = "ACTOR"
              THEN [stream EXCEPT !.actor_type = ActorTypeOf(stream.name)]
              ELSE stream
    IN [user EXCEPT
          !.character_stream_id =
              IF stream.type = "CHARACTER" THEN stream.origin_stream_id ELSE @,
          !.chat_stream_id =
              IF stream.type = "CHAT" THEN stream.origin_stream_id ELSE @,
          !.streams[stream.origin_stream_id] = st]

\* RoRConnection.add_stream fails when the user is not known, or the actor's
\* file name does not give an actor type
AddStreamFails(us, stream) ==
    \/ ~us[stream.origin_source_id].present
    \/ stream.type = "ACTOR" /\ ActorTypeOf(stream.name) = "invalid"

\* (a variant of AddStream that adds every stream to the bot's own user)
AddStreamToBot(us, stream) ==
    [us EXCEPT ![user_info.unique_id] = UserAddStream(@, stream)]

AddStream(us, stream) ==
    [us EXCEPT ![stream.origin_source_id] = UserAddStream(@, stream)]

\* RoRConnection.add_user, for a uid that is not present
AddUser(us, info) == [us EXCEPT ![info.unique_id] = NewUser(info)]

\* RoRConnection.delete_user
DeleteUser(us, uid) == [us EXCEPT ![uid] = NoUser]

Event(name, uid, stream) == [name |-> name, uid |-> uid, stream |-> stream]

\* uid is a key of _users
Known(us, uid) == uid \in Uids /\ us[uid].present

\* sid is a key of the user's streams
HasStream(user, sid) == sid \in Sids /\ user.streams[sid].type # "NONE"

\* `(-1, -1, -1) < p < (1, 1, 1)`: Vector3 compares with a tuple component
\* by component, every one strictly
InBox(p) == \A i \in 1 .. 3 : -1 < p[i] /\ p[i] < 1

\* Vector3.distance: the positions of the model lie on one line, at whole
\* distances of each other
Squared(p, q) ==
    (p[1] - q[1]) * (p[1] - q[1]) + (p[2] - q[2]) * (p[2] - q[2])
        + (p[3] - q[3]) * (p[3] - q[3])

Distance(p, q) == CHOOSE d \in 0 .. Squared(p, q) : d * d = Squared(p, q)

\* the distance from which set_position takes a move for a jump
JumpMeters == 10

\* the actor types whose meters are meters driven
Driven == {"car", "truck", "train"}

\* User.set_position on a stream the user has: a position inside the unit
\* box around the origin (the new one or the stored one) is overwritten
\* first; then a distance under 10 m is added to the meters of the stream's
\* kind and the stored position is left as it is, and a distance of 10 m or
\* more replaces the stored position and adds nothing
UserSetPosition(user, sid, position) ==
    LET stream == user.streams[sid]
        stored == IF InBox(position) \/ InBox(stream.position)
                  THEN position ELSE stream.position
        distance_meters == Distance(position, stored)
        near == distance_meters < JumpMeters
    IN [user EXCEPT
          !.streams[sid].position = IF near THEN stored ELSE position,
          !.meters_walked =
              IF near /\ stream.type = "CHARACTER"
              THEN @ + distance_meters ELSE @,
          !.meters_driven =
              IF near /\ stream.type = "ACTOR" /\ stream.actor_type \in Driven
              THEN @ + distance_meters ELSE @,
          !.meters_sailed =
              IF near /\ stream.type = "ACTOR" /\ stream.actor_type = "boat"
              THEN @ + distance_meters ELSE @,
          !.meters_flown =
              IF near /\ stream.type = "ACTOR" /\ stream.actor_type = "airplane"
              THEN @ + distance_meters ELSE @]

\* User.set_rotation
UserSetRotation(user, sid, rotation) ==
    [user EXCEPT !.streams[sid].rotation = rotation]

\* the outcome of a registry call: the user as the call leaves it, and
\* whether it raised
Outcome(err, user) == [err |-> err, user |-> user]

\* User.set_current_stream: the pair is stored; then, unless the stream is
\* the user's own character stream, the character is put at the origin,
\* which is a KeyError when character_stream_id is no key of streams
UserSetCurrentStream(user, actor_uid, sid) ==
    LET set == [user EXCEPT !.current_stream =
                    [unique_id |-> actor_uid, stream_id |-> sid]]
    IN IF sid # user.character_stream_id \/ user.info.unique_id # actor_uid
       THEN IF HasStream(set, set.character_stream_id)
            THEN Outcome(FALSE,
                         UserSetPosition(set, set.character_stream_id, Origin))
            ELSE Outcome(TRUE, set)
       ELSE Outcome(FALSE, set)

\* User.delete_stream on a stream the user has
UserDeleteStream(user, sid) ==
    [user EXCEPT
       !.streams[sid] = NoStream,
       !.character_stream_id = IF sid = @ THEN -1 ELSE @,
       !.chat_stream_id =
           IF sid # user.character_stream_id /\ sid = @ THEN -1 ELSE @]

\* (a variant of UpdateUser that makes the user anew)
UpdateUserAnew(us, info) == AddUser(us, info)

\* RoRConnection.update_user: the user is added, or its info replaced
UpdateUser(us, info) ==
    IF us[info.unique_id].present
    THEN [us EXCEPT ![info.unique_id].info = info]
    ELSE AddUser(us, info)

\* stream_data_factory: a CHARACTER stream's data is decoded by its
\* command, an ACTOR stream's as actor data; data of another layout does
\* not unpack
Decodes(type, data) ==
    \/ type = "CHARACTER" /\ data.kind \in {"position", "attach", "detach"}
    \/ type = "ACTOR" /\ data.kind = "actor"

\* the text of a payload: the bytes without the NUL bytes at its ends
RECURSIVE StripLeft(_)
StripLeft(b) ==
    IF b # <<>> /\ Head(b) = 0 THEN StripLeft(Tail(b)) ELSE b

RECURSIVE StripRight(_)
StripRight(b) ==
    IF b # <<>> /\ b[Len(b)] = 0
    THEN StripRight(SubSeq(b, 1, Len(b) - 1)) ELSE b

Strip(b) == StripRight(StripLeft(b))

(***************************************************************************)
(* The reader loop and the dispatch of inbound packets                     *)
(***************************************************************************)
\* _parse_packet(p) up to its first suspension, as the values it leaves:
\* err when it raises, reply when it is sending a STREAM_REGISTER_RESULT
Parsed(err, si, ui, us, ev, reply, stream) ==
    [err |-> err, si |-> si, ui |-> ui, us |-> us, ev |-> ev,
     reply |-> reply, stream |-> stream, gs |-> global_stats]

\* datetime.now(): the time, as the number of packets parsed so far
Now == Len(rx)

\* (a variant of Folded that keeps nothing of the user)
FoldedNothing(parsed, user) == parsed

\* RoRConnection.delete_user has popped the user: its four distances are
\* added to those of _global_stats, and the time it was online is appended
Folded(parsed, user) ==
    [parsed EXCEPT
       !.gs = [global_stats EXCEPT
                 !.meters_driven = @ + user.meters_driven,
                 !.meters_sailed = @ + user.meters_sailed,
                 !.meters_walked = @ + user.meters_walked,
                 !.meters_flown = @ + user.meters_flown,
                 !.connection_times = Append(@, Now - user.online_since)]]

\* (a variant of Counted that records nothing)
CountedNever(parsed, info) == parsed

\* RoRConnection.add_user has added info to the users: the username is
\* recorded in _global_stats
Counted(parsed, info) ==
    [parsed EXCEPT !.gs = GlobalAddUser(global_stats, info.username)]

Unchanged(err) ==
    Parsed(err, server_info, user_info, users, events, FALSE, NoStream)

\* (a variant of ReplyNeeded that replies to every stream register)
AlwaysReply(stream) == TRUE

\* the reply to an ACTOR stream register: reply_to_actor_stream_register
ReplyNeeded(stream) == stream.type = "ACTOR"

\* reply_to_actor_stream_register sets the status on the stream object,
\* which is the object add_stream stored
ReplyStatus(stream, status) == [stream EXCEPT !.status = status]

\* (a variant of Refused that ignores the packet)
Ignored(p) == Unchanged(FALSE)

\* SERVER_FULL, WRONG_PASSWORD, WRONG_VERSION, BANNED: ConnectionError
Refused(p) == Unchanged(TRUE)

ParseStreamRegister(p) ==
    IF AddStreamFails(users, p.stream) \/ ~users[p.source].present
    THEN Unchanged(TRUE)
    ELSE LET us == AddStream(users, p.stream)
             st == us[p.stream.origin_source_id].streams[p.stream.origin_stream_id]
         IN IF ReplyNeeded(st)
            THEN Parsed(FALSE, server_info, user_info,
                        AddStream(users, ReplyStatus(p.stream, SUCCESS)),
                        events, TRUE, ReplyStatus(st, SUCCESS))
            ELSE Parsed(FALSE, server_info, user_info, us,
                        Append(events, Event("stream_register", p.source, st)),
                        FALSE, NoStream)

\* the handler of a packet that changes the users and emits nothing, or
\* emits event e
Handled(err, us) ==
    Parsed(err, server_info, user_info, us, events, FALSE, NoStream)

Emitted(us, e) ==
    Parsed(FALSE, server_info, user_info, us, Append(events, e), FALSE, NoStream)

\* (a variant of EmitsText that lets the bot's own lines through)
EmitsEcho(message, source) == message # <<>>

\* CHAT and PRIVATE_CHAT: `if message and packet.source != self.unique_id`
EmitsText(message, source) ==
    message # <<>> /\ source # user_info.unique_id

ParseText(p, name) ==
    IF EmitsText(Strip(p.data.text), p.source)
    THEN Emitted(users, Event(name, p.source, NoStream))
    ELSE Unchanged(FALSE)

\* GAME_CMD: the bot's own are ignored before the payload is decoded
ParseGameCmd(p) ==
    IF p.source = user_info.unique_id THEN Unchanged(FALSE)
    ELSE IF Strip(p.data.text) # <<>>
    THEN Emitted(users, Event("game_cmd", p.source, NoStream))
    ELSE Unchanged(FALSE)

\* USER_INFO: update_user; get_username raises for a source that is not
\* known by then
ParseUserInfo(p) ==
    LET us == UpdateUser(users, p.info)
        r == IF Known(us, p.source)
             THEN Emitted(us, Event("user_info", p.source, NoStream))
             ELSE Handled(TRUE, us)
    IN IF users[p.info.unique_id].present THEN r ELSE Counted(r, p.info)

\* what the STREAM_DATA handler does to the user once the data is decoded
ApplyStreamData(user, p) ==
    CASE p.data.kind = "position" ->
            UserSetCurrentStream(
                UserSetPosition(
                    UserSetRotation(user, p.stream_id, p.data.rotation),
                    p.stream_id, p.data.position),
                p.source, p.stream_id)
      [] p.data.kind = "actor" ->
            UserSetCurrentStream(
                UserSetPosition(user, p.stream_id, p.data.position),
                p.source, p.stream_id)
      [] p.data.kind = "attach" ->
            UserSetCurrentStream(user, p.data.source_id, p.data.stream_id)
      [] OTHER -> Outcome(FALSE, user)

\* (a variant of NotFound that lets the lookup error out of the handler)
NotFoundRaises(p) == Unchanged(TRUE)

\* contextlib.suppress(UserNotFoundError, StreamNotFoundError): the lookup
\* failed and the handler returns
NotFound(p) == Unchanged(FALSE)

\* STREAM_DATA
ParseStreamData(p) ==
    IF p.source = user_info.unique_id THEN Unchanged(FALSE)
    ELSE IF ~Known(users, p.source) \/ ~HasStream(users[p.source], p.stream_id)
    THEN NotFound(p)
    ELSE LET user == users[p.source]
             stream == user.streams[p.stream_id]
         IN IF stream.type = "CHAT"
            THEN Emitted(users, Event("stream_data", p.source, stream))
            ELSE IF ~Decodes(stream.type, p.data)
            THEN Unchanged(TRUE)
            ELSE LET o == ApplyStreamData(user, p)
                     us == [users EXCEPT ![p.source] = o.user]
                 IN IF o.err
                    THEN Handled(TRUE, us)
                    ELSE Emitted(us, Event("stream_data", p.source,
                                           o.user.streams[p.stream_id]))

\* STREAM_UNREGISTER: a payload is an error, and so is a source or a stream
\* that is not known
ParseStreamUnregister(p) ==
    IF p.data.kind # "none" \/ ~Known(users, p.source)
        \/ ~HasStream(users[p.source], p.stream_id)
    THEN Unchanged(TRUE)
    ELSE Emitted([users EXCEPT ![p.source] = UserDeleteStream(@, p.stream_id)],
                 Event("stream_unregister", p.source, NoStream))

\* ServerInfo.from_bytes(packet.payload): what the payload says; the HELLO
\* of the handshake is the server's own, "ServerInfo"
FromHello(p) ==
    IF p.data.kind = "server_info" THEN p.data.info ELSE "ServerInfo"

\* _parse_packet: the handler registered for the class of the packet; the
\* default, for a class with no handler, raises NotImplementedError
ParsePacket(p) ==
    CASE p.type = "HELLO" ->
            Parsed(FALSE, FromHello(p), user_info, users, events, FALSE,
                   NoStream)
      [] p.type = "WELCOME" ->
            IF users[p.info.unique_id].present
            THEN Parsed(TRUE, server_info, p.info, users, events, FALSE, NoStream)
            ELSE Counted(Parsed(FALSE, server_info, p.info,
                                AddUser(users, p.info), events, FALSE,
                                NoStream), p.info)
      [] p.type \in Refusals -> Refused(p)
      [] p.type = "USER_JOIN" ->
            IF p.source = user_info.unique_id THEN Unchanged(FALSE)
            ELSE IF users[p.info.unique_id].present THEN Unchanged(TRUE)
            ELSE Counted(Parsed(FALSE, server_info, user_info,
                                AddUser(users, p.info),
                                Append(events,
                                       Event("user_join", p.source, NoStream)),
                                FALSE, NoStream), p.info)
      [] p.type = "USER_LEAVE" ->
            IF ~users[p.source].present \/ p.source = user_info.unique_id
            THEN Unchanged(TRUE)
            ELSE Folded(Parsed(FALSE, server_info, user_info,
                               DeleteUser(users, p.source),
                               Append(events,
                                      Event("user_leave", p.source, NoStream)),
                               FALSE, NoStream), users[p.source])
      [] p.type = "STREAM_REGISTER" -> ParseStreamRegister(p)
      [] p.type = "CHAT" -> ParseText(p, "chat")
      [] p.type = "PRIVATE_CHAT" -> ParseText(p, "private_chat")
      [] p.type = "GAME_CMD" -> ParseGameCmd(p)
      [] p.type = "USER_INFO" -> ParseUserInfo(p)
      [] p.type = "STREAM_DATA" -> ParseStreamData(p)
      [] p.type = "STREAM_UNREGISTER" -> ParseStreamUnregister(p)
      [] OTHER -> Unchanged(TRUE)

ResultPacket(stream) ==
    Packet("STREAM_REGISTER_RESULT", user_info.unique_id,
           stream.origin_stream_id, NoInfo, stream)

\* (a variant of Taken that reads the packet that arrived last)
TakenLast(buf) ==
    [packet |-> buf[Len(buf)], rest |-> SubSeq(buf, 1, Len(buf) - 1)]

\* the reads of one turn of __reader_loop: the bytes of a stream are read
\* in the order they arrived, so the packet is the first one under way
Taken(buf) == [packet |-> Head(buf), rest |-> Tail(buf)]

\* one turn of __reader_loop: readexactly(16) and read(size) return the next
\* packet (the end of the stream raises IncompleteReadError), _parse_packet
\* handles it, and the loop sleeps 10 ms before the next header
ReaderRecv ==
    /\ pc["reader"] = "recv"
    /\ "reader" \notin cancelReq
    /\ inbox # <<>>
    /\ LET p == Taken(inbox).packet
           r == ParsePacket(p)
           e == EmitAll(emitter, SubSeq(r.ev, Len(events) + 1, Len(r.ev)))
       IN /\ inbox' = Taken(inbox).rest
          /\ rx' = IF p.type = "EOF" THEN rx ELSE Append(rx, p)
          /\ server_info' = r.si
          /\ user_info' = r.ui
          /\ users' = r.us
          /\ global_stats' = r.gs
          /\ events' = r.ev
          /\ emitter' = e.em
          /\ IF r.err \/ e.err
             THEN /\ Raise("reader")
                  /\ UNCHANGED <<ret, pending, lock, sent, tgEntered, exitType>>
             ELSE IF r.reply
             THEN /\ Send("reader", ResultPacket(r.stream), "emit_register")
                  /\ UNCHANGED <<cancelReq, group>>
             ELSE UNCHANGED <<pc, ret, pending, lock, sent, cancelReq, group>>
    /\ UNCHANGED <<driver, writerClosed, stream_id, is_connected, nIn,
                   assigned, regStream, counters>>
    /\ UNCHANGED <<framing, client, hb, countdown, fclock>>

\* the reply was sent: the stream_register event is emitted
ReaderEmitRegister ==
    /\ pc["reader"] = "drain"
    /\ ret["reader"] = "emit_register"
    /\ "reader" \notin cancelReq
    /\ lockHolder' = Release(lockHolder, "reader")
    /\ events' = Append(events, Event("stream_register", rx[Len(rx)].source,
                                      pending["reader"].stream))
    /\ LET e == Emit(emitter, "stream_register")
       IN /\ emitter' = e.em
          /\ IF e.err
             THEN /\ Raise("reader")
                  /\ UNCHANGED <<tgEntered, exitType>>
             ELSE /\ pc' = [pc EXCEPT !["reader"] = "recv"]
                  /\ UNCHANGED <<cancelReq, group>>
    /\ UNCHANGED <<ret, pending, driver, lockWaiters, writerClosed, conn, net,
                   sent, rx, assigned, regStream, counters>>
    /\ UNCHANGED <<framing, outside>>

\* the server: one more packet, or the end of the stream, on the socket
ServerSend ==
    /\ nIn < MaxInbound
    /\ "reader" \in Alive
    /\ inbox = <<>>
    /\ \E p \in ServerPackets : inbox' = <<p>>
    /\ nIn' = nIn + 1
    /\ UNCHANGED <<pc, ret, pending, cancelReq, driver, group, lock,
                   writerClosed, conn, logs, regStream, counters>>
    /\ UNCHANGED <<framing, emitter, outside>>

(***************************************************************************)
(* The main task: RoRClient.__aenter__ and RoRConnection.__aenter__        *)
(***************************************************************************)
\* the main task ends with exception e
MainEnds(e, pcs) ==
    /\ pc' = [pcs EXCEPT !["main"] = "failed"]
    /\ mainErr' = e

\* the head of `for attempt in range(self._reconnection_tries)`: the next
\* attempt calls self.server.__aenter__(), whose first statement enters the
\* connection's one TaskGroup (a TaskGroup can be entered once: a second
\* __aenter__ raises RuntimeError) and whose second awaits open_connection;
\* after the loop, the client is connected or ConnectionError is raised
NextAttempt ==
    IF attempt < ReconnectionTries
    THEN IF tgEntered
         THEN [pc |-> "failed", err |-> "RuntimeError", opens |-> opens]
         ELSE [pc |-> "opening", err |-> None, opens |-> opens + 1]
    ELSE IF is_connected
         THEN [pc |-> "running", err |-> None, opens |-> opens]
         ELSE [pc |-> "failed", err |-> "ConnectionError", opens |-> opens]

ClientEnter ==
    /\ pc["main"] = "client_enter"
    /\ pc' = [pc EXCEPT !["main"] = NextAttempt.pc]
    /\ mainErr' = NextAttempt.err
    /\ opens' = NextAttempt.opens
    /\ tgEntered' = (tgEntered \/ attempt < ReconnectionTries)
    /\ UNCHANGED <<ret, pending, cancelReq, attempt, sleeps, tgErrors,
                   tgAborting, tgParentCancel, exitType, lock, writerClosed,
                   conn, net, logs, regStream, counters>>
    /\ UNCHANGED <<framing, emitter, outside>>

HelloPacket == Packet("HELLO", 0, stream_id, NoInfo, NoStream)

\* `except ConnectionRefusedError`: sleep before the next attempt, unless
\* this was the last one
AfterRefusal ==
    IF attempt < ReconnectionTries - 1 THEN "retry_sleep" ELSE "client_enter"

\* open_connection returns: the connection is refused, or it is open, the
\* lock and the reader task are created and __send_hello sends HELLO
OpenDone ==
    /\ pc["main"] = "opening"
    /\ \E ok \in BOOLEAN :
        IF ok
        THEN /\ server_info' = None
             /\ SendFrom("main", HelloPacket, "hello_poll", None, <<>>,
                         [pc EXCEPT !["reader"] = "recv"])
             /\ UNCHANGED <<attempt, sleeps>>
        ELSE /\ pc' = [pc EXCEPT !["main"] = AfterRefusal]
             /\ sleeps' = IF AfterRefusal = "retry_sleep" THEN sleeps + 1 ELSE sleeps
             /\ attempt' = IF AfterRefusal = "retry_sleep" THEN attempt ELSE attempt + 1
             /\ UNCHANGED <<ret, pending, lock, sent, server_info>>
    /\ UNCHANGED <<cancelReq, opens, mainErr, group, writerClosed, user_info,
                   stream_id, is_connected, users, net, rx, events, assigned,
                   regStream, counters>>
    /\ UNCHANGED <<framing, emitter, outside>>

\* the reconnection_interval sleep is over: the next iteration of the loop
RetryWake ==
    /\ pc["main"] = "retry_sleep"
    /\ attempt' = attempt + 1
    /\ pc' = [pc EXCEPT !["main"] = "client_enter"]
    /\ UNCHANGED <<ret, pending, cancelReq, opens, sleeps, mainErr, group,
                   lock, writerClosed, conn, net, logs, regStream, counters>>
    /\ UNCHANGED <<framing, emitter, outside>>

UserInfoPacket ==
    Packet("USER_INFO", user_info.unique_id, stream_id, user_info, NoStream)

\* (a variant of the guards that does not wait)
NoGuard == TRUE

\* the guard of __send_hello: _server_info is present
HelloGuard == server_info # None

\* __send_hello's poll finds _server_info present: __send_welcome sends
\* USER_INFO
MainHelloPoll ==
    /\ pc["main"] = "hello_poll"
    /\ "main" \notin cancelReq
    /\ HelloGuard
    /\ Send("main", UserInfoPacket, "welcome_poll")
    /\ UNCHANGED <<cancelReq, driver, group, writerClosed, conn, net, rx,
                   events, assigned, regStream, counters>>
    /\ UNCHANGED <<framing, emitter, outside>>

\* register_stream(stream): the ids the stream is given
Registered(stream) ==
    [stream EXCEPT !.origin_source_id = user_info.unique_id,
                   !.origin_stream_id = stream_id]

RegisterPacket(stream) ==
    Packet("STREAM_REGISTER", stream.origin_source_id,
           stream.origin_stream_id, NoInfo, stream)

\* (a variant of NextStreamId that hands out the same id again)
SameStreamId(sid) == sid

\* the stream id register_stream hands out next
NextStreamId(sid) == sid + 1

ChatStream == [NoStream EXCEPT !.type = "CHAT", !.name = "chat"]
CharacterStream == [NoStream EXCEPT !.type = "CHARACTER", !.name = "default"]
ActorStream == [NoStream EXCEPT !.type = "ACTOR", !.name = "bot.truck"]

\* the guard of __send_welcome: color_num is no longer -1
WelcomeGuard == user_info.color_num # -1

\* the first stream __register_streams registers
FirstRegistered == ChatStream
\* the second stream __register_streams registers
SecondRegistered == CharacterStream

\* __send_welcome's poll finds the color assigned: __register_streams
\* registers the chat stream
MainWelcomePoll ==
    /\ pc["main"] = "welcome_poll"
    /\ "main" \notin cancelReq
    /\ WelcomeGuard
    /\ regStream' = Registered(FirstRegistered)
    /\ Send("main", RegisterPacket(Registered(FirstRegistered)), "reg_chat_done")
    /\ UNCHANGED <<cancelReq, driver, group, writerClosed, conn, net, rx,
                   events, assigned, counters>>
    /\ UNCHANGED <<framing, emitter, outside>>

\* register_stream after its _send: add_stream, the next id, the return
\* value; next is what the main task does then
AfterRegister(next) ==
    /\ pc["main"] = "drain"
    /\ ret["main"] = next
    /\ "main" \notin cancelReq
    /\ users' = AddStream(users, regStream)
    /\ stream_id' = NextStreamId(stream_id)
    /\ assigned' = Append(assigned, regStream.origin_stream_id)

\* the chat stream is registered: __register_streams registers the
\* character stream
MainRegChatDone ==
    /\ AfterRegister("reg_chat_done")
    /\ LET st == [SecondRegistered EXCEPT
                    !.origin_source_id = user_info.unique_id,
                    !.origin_stream_id = stream_id']
       IN /\ regStream' = st
          /\ SendFrom("main", RegisterPacket(st), "reg_char_done",
                      Release(lockHolder, "main"), lockWaiters, pc)
    /\ UNCHANGED <<cancelReq, driver, group, writerClosed, server_info,
                   user_info, is_connected, net, rx, events, counters>>
    /\ UNCHANGED <<framing, emitter, outside>>

\* whether __aenter__ sets _is_connected once both streams are registered
ConnectedAfterRegister == TRUE

\* the character stream is registered: the connection is running, the
\* heartbeat and frame step tasks are created, and the scope's body runs
MainRegCharDone ==
    /\ AfterRegister("reg_char_done")
    /\ is_connected' = ConnectedAfterRegister
    /\ lockHolder' = Release(lockHolder, "main")
    /\ pc' = [pc EXCEPT !["main"] = "running", !["heartbeat"] = "start",
                        !["frame"] = "sleep"]
    /\ UNCHANGED <<ret, pending, cancelReq, driver, group, lockWaiters,
                   writerClosed, server_info, user_info, net, sent, rx,
                   events, regStream, counters>>
    /\ UNCHANGED <<framing, emitter, outside>>

(***************************************************************************)
(* The body of the scope: the send primitives, and the exit                *)
(***************************************************************************)
Me == users[user_info.unique_id]

ChatPacket ==
    Packet("CHAT", user_info.unique_id, Me.chat_stream_id, NoInfo, NoStream)

\* the body calls send_chat
MainSendChat ==
    /\ pc["main"] = "running"
    /\ "main" \notin cancelReq
    /\ nCalls < MaxCalls
    /\ nCalls' = nCalls + 1
    /\ Send("main", ChatPacket, "running")
    /\ UNCHANGED <<cancelReq, driver, group, writerClosed, conn, net, rx,
                   events, assigned, regStream, nHeartbeats, nAnnouncements>>
    /\ UNCHANGED <<framing, emitter, outside>>

\* the body calls register_stream with an actor stream
MainRegister ==
    /\ pc["main"] = "running"
    /\ "main" \notin cancelReq
    /\ nCalls < MaxCalls
    /\ nCalls' = nCalls + 1
    /\ regStream' = Registered(ActorStream)
    /\ Send("main", RegisterPacket(Registered(ActorStream)), "reg_user_done")
    /\ UNCHANGED <<cancelReq, driver, group, writerClosed, conn, net, rx,
                   events, assigned, nHeartbeats, nAnnouncements>>
    /\ UNCHANGED <<framing, emitter, outside>>

\* register_stream returns to the body
MainRegUserDone ==
    /\ AfterRegister("reg_user_done")
    /\ lockHolder' = Release(lockHolder, "main")
    /\ pc' = [pc EXCEPT !["main"] = "running"]
    /\ UNCHANGED <<ret, pending, cancelReq, driver, group, lockWaiters,
                   writerClosed, server_info, user_info, is_connected, net,
                   sent, rx, events, regStream, counters>>
    /\ UNCHANGED <<framing, emitter, outside>>

UserLeavePacket ==
    Packet("USER_LEAVE", user_info.unique_id, stream_id, NoInfo, NoStream)

\* the body ends without an exception: __aexit__(None, None, None) sends
\* USER_LEAVE
MainExit ==
    /\ pc["main"] = "running"
    /\ "main" \notin cancelReq
    /\ exitType' = None
    /\ Send("main", UserLeavePacket, "aexit_join")
    /\ UNCHANGED <<cancelReq, driver, tgEntered, tgErrors, tgAborting,
                   tgParentCancel, writerClosed, conn, net, rx, events,
                   assigned, regStream, counters>>
    /\ UNCHANGED <<framing, emitter, outside>>

\* where the main task is when the task group cancels it
InBody ==
    \/ pc["main"] = "running"
    \/ /\ pc["main"] \in {"drain", "lock_wait"}
       /\ ret["main"] \in {"running", "reg_user_done"}

\* the main task resumes with CancelledError. Inside __aenter__ the error
\* leaves RoRConnection.__aenter__ and RoRClient.__aenter__ (which catches
\* ConnectionRefusedError only); inside the body it runs
\* __aexit__(CancelledError, ..), which sends USER_LEAVE; inside __aexit__'s
\* own _send it leaves __aexit__
MainCancelled ==
    /\ "main" \in cancelReq
    /\ pc["main"] \notin Ended
    /\ cancelReq' = cancelReq \ {"main"}
    /\ IF InBody
       THEN /\ exitType' = "CancelledError"
            /\ SendFrom("main", UserLeavePacket, "aexit_join",
                        Release(lockHolder, "main"),
                        Without(lockWaiters, "main"), pc)
            /\ UNCHANGED mainErr
       ELSE /\ MainEnds("CancelledError", pc)
            /\ lockHolder' = Release(lockHolder, "main")
            /\ lockWaiters' = Without(lockWaiters, "main")
            /\ UNCHANGED <<ret, pending, sent, exitType>>
    /\ UNCHANGED <<attempt, opens, sleeps, tgEntered, tgErrors, tgAborting,
                   tgParentCancel, writerClosed, conn, net, rx, events,
                   assigned, regStream, counters>>
    /\ UNCHANGED <<framing, emitter, outside>>

\* TaskGroup.__aexit__ returns without an exception only when no task of the
\* group raised and __aexit__ was given no exception
JoinRaises == tgErrors \/ exitType # None

\* `await self._task_group.__aexit__(..)` returns once every task of the
\* group has ended. It raises the group's errors (or the cancellation it was
\* given), which leaves __aexit__; otherwise __aexit__ goes on: cancels the
\* three tasks, closes the writer under the lock and clears _is_connected
MainJoin ==
    /\ pc["main"] = "aexit_join"
    /\ Alive = {}
    /\ IF JoinRaises
       THEN /\ MainEnds(IF tgErrors THEN "ExceptionGroup" ELSE exitType, pc)
            /\ UNCHANGED <<writerClosed, is_connected>>
       ELSE /\ pc' = [pc EXCEPT !["main"] = "done"]
            /\ writerClosed' = TRUE
            /\ is_connected' = FALSE
            /\ UNCHANGED mainErr
    /\ UNCHANGED <<ret, pending, cancelReq, attempt, opens, sleeps, group,
                   lock, server_info, user_info, stream_id, users, net, logs,
                   regStream, counters>>
    /\ UNCHANGED <<framing, emitter, outside>>

(***************************************************************************)
(* The heartbeat loop, the frame step loop and the frame_step handler      *)
(***************************************************************************)
\* `self.position = Vector3()` and `self.rotation = 0.0`: set_position and
\* set_rotation on the bot's character stream
AtOrigin(user) ==
    UserSetRotation(UserSetPosition(user, user.character_stream_id, Origin),
                    user.character_stream_id, 0)

\* the first run of __heartbeat_loop: it raises unless connected, and puts
\* the bot at the origin
HbStart ==
    /\ pc["heartbeat"] = "start"
    /\ "heartbeat" \notin cancelReq
    /\ IF is_connected
       THEN /\ pc' = [pc EXCEPT !["heartbeat"] = "sleep"]
            /\ users' = [users EXCEPT ![user_info.unique_id] = AtOrigin(@)]
            /\ UNCHANGED <<cancelReq, group>>
       ELSE /\ Raise("heartbeat")
            /\ UNCHANGED <<tgEntered, exitType, users>>
    /\ UNCHANGED <<ret, pending, driver, lock, writerClosed, server_info,
                   user_info, stream_id, is_connected, net, logs,
                   regStream, counters>>
    /\ UNCHANGED <<framing, emitter, outside>>

\* `delta = 0`, the first statement of the branch that sends
ResetDelta == 0

\* the CharacterPositionStreamData of a heartbeat: `stream.position =
\* self.position`, `stream.rotation = self.rotation`, the position and the
\* rotation of the bot's character stream, and the animation time given
Heartbeat(animation_time) ==
    [Packet("STREAM_DATA", user_info.unique_id, Me.character_stream_id,
            NoInfo, NoStream)
       EXCEPT !.data =
           [kind |-> "position",
            position |-> Me.streams[Me.character_stream_id].position,
            rotation |-> Me.streams[Me.character_stream_id].rotation,
            animation_time |-> animation_time]]

\* `stream.animation_time = delta`, which follows `delta = 0`
HeartbeatPacket == Heartbeat(ResetDelta)

\* a turn of the heartbeat loop in which the interval has passed: the
\* character position is sent (the turns in which it has not change nothing)
HbTick ==
    /\ pc["heartbeat"] = "sleep"
    /\ "heartbeat" \notin cancelReq
    /\ nHeartbeats < MaxHeartbeats
    /\ IF is_connected
       THEN /\ nHeartbeats' = nHeartbeats + 1
            /\ Send("heartbeat", HeartbeatPacket, "sleep")
       ELSE /\ pc' = [pc EXCEPT !["heartbeat"] = "done"]
            /\ UNCHANGED <<ret, pending, lock, sent, nHeartbeats>>
    /\ UNCHANGED <<cancelReq, driver, group, writerClosed, conn, net, rx,
                   events, assigned, regStream, nAnnouncements, nCalls>>
    /\ UNCHANGED <<framing, emitter, outside>>

\* a turn of the frame step loop that emits frame_step with an announcement
\* due: the emitter schedules RoRClient._on_frame_step as a task
FrameTick ==
    /\ pc["frame"] = "sleep"
    /\ "frame" \notin cancelReq
    /\ pc["handler"] \in {"init", "done"}
    /\ nAnnouncements < MaxAnnouncements
    /\ nAnnouncements' = nAnnouncements + 1
    /\ pc' = [pc EXCEPT !["handler"] = "start"]
    /\ UNCHANGED <<ret, pending, cancelReq, driver, group, lock, writerClosed,
                   conn, net, logs, regStream, nHeartbeats, nCalls>>
    /\ UNCHANGED <<framing, emitter, outside>>

\* _on_frame_step runs: send_chat(announcement)
HandlerRun ==
    /\ pc["handler"] = "start"
    /\ Send("handler", ChatPacket, "done")
    /\ UNCHANGED <<cancelReq, driver, group, writerClosed, conn, net, rx,
                   events, assigned, regStream, counters>>
    /\ UNCHANGED <<framing, emitter, outside>>

(***************************************************************************)
(* The specifications                                                      *)
(***************************************************************************)
Next ==
    \/ ClientEnter
    \/ OpenDone
    \/ RetryWake
    \/ MainHelloPoll
    \/ MainWelcomePoll
    \/ MainRegChatDone
    \/ MainRegCharDone
    \/ MainSendChat
    \/ MainRegister
    \/ MainRegUserDone
    \/ MainExit
    \/ MainCancelled
    \/ MainJoin
    \/ ReaderRecv
    \/ ReaderEmitRegister
    \/ ServerSend
    \/ HbStart
    \/ HbTick
    \/ FrameTick
    \/ HandlerRun
    \/ \E t \in Tasks : LockAcquired(t)
    \/ \E t \in Tasks : Drained(t)
    \/ \E t \in GroupTasks : Cancelled(t)

Spec == Init /\ [][Next]_vars

\* the scheduling of the event loop: a task that can run does run, a timer
\* that is due fires, a drain() on the open socket returns. Nothing is
\* assumed of the server (ServerSend) nor of what the body of the scope
\* chooses to do (MainSendChat, MainRegister, MainExit)
MainStep ==
    \/ ClientEnter
    \/ OpenDone
    \/ RetryWake
    \/ MainHelloPoll
    \/ MainWelcomePoll
    \/ MainRegChatDone
    \/ MainRegCharDone
    \/ MainRegUserDone
    \/ MainCancelled
    \/ MainJoin
    \/ LockAcquired("main")
    \/ Drained("main")

ReaderStep ==
    \/ ReaderRecv
    \/ ReaderEmitRegister
    \/ LockAcquired("reader")
    \/ Cancelled("reader")

LoopStep ==
    \/ HbStart
    \/ HbTick
    \/ FrameTick
    \/ HandlerRun
    \/ \E t \in {"heartbeat", "handler"} : LockAcquired(t) \/ Drained(t)
    \/ \E t \in {"heartbeat", "frame"} : Cancelled(t)

Fairness == WF_vars(MainStep) /\ WF_vars(ReaderStep) /\ WF_vars(LoopStep)

FairSpec == Spec /\ Fairness

(***************************************************************************)
(* The framer: __reader_loop on the bytes of the stream                    *)
(***************************************************************************)
\* packets one stream carries, and the longest payload
MaxFramed == 2
MaxPayload == 2

\* struct.calcsize('IIII')
HeaderSize == 16
\* MessageType.CHAT and MessageType.STREAM_UNREGISTER
CHAT == 1039
STREAM_UNREGISTER == 1043

Min(a, b) == IF a < b THEN a ELSE b

\* struct 'I': an unsigned 32-bit integer, least significant byte first
\* (the fields of the model's packets are all below 2^31)
Pack32(n) == [i \in 1 .. 4 |-> (n \div (256 ^ (i - 1))) % 256]
Unpack32(b) == b[1] + 256 * b[2] + 65536 * b[3] + 16777216 * b[4]

\* BasePacket.pack: the header, then the payload
Pack(p) ==
    Pack32(p.type) \o Pack32(p.source) \o Pack32(p.stream_id)
        \o Pack32(p.size) \o p.payload

\* struct.unpack('IIII', header) and packet_factory
Unpack(b) ==
    [type |-> Unpack32(SubSeq(b, 1, 4)), source |-> Unpack32(SubSeq(b, 5, 8)),
     stream_id |-> Unpack32(SubSeq(b, 9, 12)),
     size |-> Unpack32(SubSeq(b, 13, 16))]

Framed(type, source, sid, payload) ==
    [type |-> type, source |-> source, stream_id |-> sid,
     size |-> Len(payload), payload |-> payload]

\* the payloads of the model: one to MaxPayload bytes
Payloads == UNION {[1 .. n -> {104, 105}] : n \in 1 .. MaxPayload}

\* well-formed packets of a peer: chat lines, and a STREAM_UNREGISTER, the
\* one packet that has no payload
WellFormed ==
    {Framed(CHAT, 42, 11, b) : b \in Payloads}
    \cup {Framed(STREAM_UNREGISTER, 42, 12, <<>>)}

Streams == UNION {[1 .. n -> WellFormed] : n \in 1 .. MaxFramed}

RECURSIVE Bytes(_)
Bytes(packets) ==
    IF packets = <<>> THEN <<>> ELSE Pack(Head(packets)) \o Bytes(Tail(packets))

Drop(seq, n) == SubSeq(seq, n + 1, Len(seq))

InitFramer ==
    /\ pc = [t \in Tasks |-> IF t = "reader" THEN "header" ELSE "init"]
    /\ Constructed
    /\ \E stream \in Streams : framed = stream /\ wire = Bytes(stream)
    /\ header = NoHeader

idle == <<ret, pending, cancelReq, driver, group, lock, writerClosed, conn,
          nIn, sent, events, assigned, regStream, counters, emitter,
          outside>>

\* the transport hands the stream reader the next chunk: any number of the
\* bytes under way
Deliver ==
    /\ wire # <<>>
    /\ \E k \in 1 .. Len(wire) :
          /\ inbox' = inbox \o SubSeq(wire, 1, k)
          /\ wire' = Drop(wire, k)
    /\ UNCHANGED <<pc, rx, framed, header, idle>>

\* `await self._reader.read(n)` on buffer buf: StreamReader.read returns at
\* most n bytes, as many as the buffer holds
Read(buf, n) == SubSeq(buf, 1, Min(n, Len(buf)))

\* (a variant of NoData that lets every header through)
AnyData(h) == FALSE

\* the header must announce a payload, unless it is a STREAM_UNREGISTER
NoData(h) == h.type # STREAM_UNREGISTER /\ h.size = 0

\* read(h.size) has returned with buffer buf: the length check, and the
\* packet with its payload goes to _parse_packet
TakePayload(h, buf) ==
    LET payload == Read(buf, h.size) IN
    /\ inbox' = Drop(buf, Len(payload))
    /\ IF Len(payload) # h.size
       THEN /\ pc' = [pc EXCEPT !["reader"] = "failed"]
            /\ rx' = rx
       ELSE /\ pc' = [pc EXCEPT !["reader"] = "header"]
            /\ rx' = Append(rx, Framed(h.type, h.source, h.stream_id, payload))

\* readexactly(16) returns once the buffer holds 16 bytes; the header is
\* unpacked and checked, and read(size) returns at once when it asks for no
\* byte or the buffer holds any, and waits for data otherwise
ReadHeader ==
    /\ pc["reader"] = "header"
    /\ Len(inbox) >= HeaderSize
    /\ LET h == Unpack(SubSeq(inbox, 1, HeaderSize))
           rest == Drop(inbox, HeaderSize)
       IN /\ header' = h
          /\ IF NoData(h)
             THEN /\ pc' = [pc EXCEPT !["reader"] = "failed"]
                  /\ inbox' = rest
                  /\ rx' = rx
             ELSE IF h.size = 0 \/ rest # <<>>
             THEN TakePayload(h, rest)
             ELSE /\ pc' = [pc EXCEPT !["reader"] = "payload"]
                  /\ inbox' = rest
                  /\ rx' = rx
    /\ UNCHANGED <<framed, wire, idle>>

\* read(size) was waiting for data and the buffer is no longer empty
ReadPayload ==
    /\ pc["reader"] = "payload"
    /\ inbox # <<>>
    /\ TakePayload(header, inbox)
    /\ UNCHANGED <<framed, wire, header, idle>>

NextFramer ==
    \/ Deliver
    \/ ReadHeader
    \/ ReadPayload

SpecFramer == InitFramer /\ [][NextFramer]_vars

(***************************************************************************)
(* The running connection: the dispatch of the packets of a peer           *)
(***************************************************************************)
\* packets the server relays while the connection is running
MaxPeerPackets == 3

\* the bot as the server's WELCOME names it, and a peer
Bot == [unique_id |-> 7, color_num |-> 0, username |-> "bot"]
Peer == [unique_id |-> 42, color_num |-> 3, username |-> "peer"]

OwnChat ==
    [ChatStream EXCEPT !.origin_source_id = 7, !.origin_stream_id = 10]
OwnCharacter ==
    [CharacterStream EXCEPT !.origin_source_id = 7, !.origin_stream_id = 11]

\* the state __aenter__ leaves when the server has answered HELLO and
\* USER_INFO and has announced a peer: the bot's two streams are
\* registered, the three loops run and the body has made no call yet
RunningPc ==
    [t \in Tasks |->
        CASE t = "main" -> "running"
          [] t = "reader" -> "recv"
          [] t = "handler" -> "init"
          [] OTHER -> "sleep"]

\* the connection of that state
Connected ==
    /\ ret = [t \in Tasks |-> IF t = "main" THEN "reg_char_done" ELSE "none"]
    /\ pending = [t \in Tasks |->
                     IF t = "main" THEN RegisterPacket(OwnCharacter)
                     ELSE NoPacket]
    /\ cancelReq = {}
    /\ attempt = 0
    /\ opens = 1
    /\ sleeps = 0
    /\ mainErr = None
    /\ tgEntered = TRUE
    /\ tgErrors = FALSE
    /\ tgAborting = FALSE
    /\ tgParentCancel = FALSE
    /\ exitType = None
    /\ lockHolder = None
    /\ lockWaiters = <<>>
    /\ writerClosed = FALSE
    /\ server_info = "ServerInfo"
    /\ user_info = Bot
    /\ stream_id = 12
    /\ is_connected = TRUE
    /\ users = AddUser(AddStream(AddStream(AddUser([u \in Uids |-> NoUser],
                                                   Bot), OwnChat),
                                 OwnCharacter), Peer)
    /\ global_stats = GlobalAddUser(GlobalAddUser(NoStats, Bot.username),
                                    Peer.username)
    /\ inbox = <<>>
    /\ nIn = 3
    /\ sent = <<Packet("HELLO", 0, 10, NoInfo, NoStream),
                Packet("USER_INFO", 7, 10, Bot, NoStream),
                RegisterPacket(OwnChat), RegisterPacket(OwnCharacter)>>
    /\ rx = <<Packet("HELLO", 0, 0, NoInfo, NoStream),
              Packet("WELCOME", 7, 0, Bot, NoStream),
              Packet("USER_JOIN", 42, 0, Peer, NoStream)>>
    /\ events = <<Event("user_join", 42, NoStream)>>
    /\ assigned = <<10, 11>>
    /\ regStream = OwnCharacter
    /\ nHeartbeats = 0
    /\ nAnnouncements = 0
    /\ nCalls = 0
    /\ emitter = Constructor

Running == pc = RunningPc /\ Connected

\* a packet with stream data or text
DataPacket(type, source, sid, data) ==
    [Packet(type, source, sid, NoInfo, NoStream) EXCEPT !.data = data]

\* the positions peers report lie on one line, 5 m apart
Steps == {1, 2, 3}
Step(k) == <<3 * k, 4 * k, 0>>

\* CharacterPositionStreamData, CharacterAttachStreamData and ActorStreamData
PositionData(k) == [kind |-> "position", position |-> Step(k), rotation |-> 1]
AttachData(uid, sid) == [kind |-> "attach", source_id |-> uid, stream_id |-> sid]
ActorData(k) == [kind |-> "actor", position |-> Step(k)]

\* text payloads: a line that ends with NUL bytes, and NUL bytes alone
Line == <<104, 105, 0>>
Nul == <<0, 0>>
Text(b) == [kind |-> "text", text |-> b]

TextTypes == {"CHAT", "PRIVATE_CHAT", "GAME_CMD"}

\* what the server relays: the peer registers and unregisters a character
\* and an actor, sends data on them, on a stream it has not registered and
\* for a user that is not known, and the lines of the peer and the bot's own
PeerPackets ==
    {Packet("STREAM_REGISTER", 42, s.origin_stream_id, NoInfo, s) :
        s \in {PeerStream("CHARACTER", 12, "default"),
               PeerStream("ACTOR", 13, "fancy.truck")}}
    \cup {Packet("STREAM_UNREGISTER", 42, sid, NoInfo, NoStream) :
            sid \in {12, 13}}
    \cup {DataPacket("STREAM_DATA", 42, 12, PositionData(k)) : k \in Steps}
    \cup {DataPacket("STREAM_DATA", 42, 12, AttachData(7, 11))}
    \cup {DataPacket("STREAM_DATA", 42, 13, ActorData(k)) : k \in {1, 2}}
    \cup {DataPacket("STREAM_DATA", u, 12, PositionData(1)) : u \in {43}}
    \cup {DataPacket("STREAM_DATA", u, 11, PositionData(1)) : u \in {7, 42}}
    \cup {DataPacket("STREAM_DATA_DISCARDABLE", 42, 12, PositionData(1))}
    \cup {DataPacket(t, 42, 10, Text(b)) : t \in TextTypes, b \in {Line, Nul}}
    \cup {DataPacket(t, 7, 10, Text(Line)) : t \in TextTypes}
    \cup {Packet("USER_INFO", 42, 0, Peer, NoStream)}

InitRegistry ==
    /\ Running
    /\ ClientConstructed
    /\ framed = <<>>
    /\ wire = <<>>
    /\ header = NoHeader

\* the server relays one more packet, one of the set: it joins the packets
\* under way
Relay(packets) ==
    /\ Len(framed) < MaxPeerPackets
    /\ "reader" \in Alive
    /\ \E p \in packets :
          /\ inbox' = Append(inbox, p)
          /\ framed' = Append(framed, p)
    /\ nIn' = nIn + 1
    /\ UNCHANGED <<pc, ret, pending, cancelReq, driver, group, lock,
                   writerClosed, conn, logs, regStream, counters, wire,
                   header, emitter, outside>>

PeerSend == Relay(PeerPackets)

\* the reader is the one task to run: the other tasks of a running
\* connection touch neither the users nor the events
NextRegistry ==
    \/ PeerSend
    \/ ReaderRecv
    \/ ReaderEmitRegister

SpecRegistry == InitRegistry /\ [][NextRegistry]_vars

(***************************************************************************)
(* The running connection: the listeners of its events                     *)
(***************************************************************************)
\* listeners the program registers, and calls of listeners recorded
MaxListeners == 2
MaxInvoked == 5

\* the events that are given listeners: one of the reader's handlers, the
\* one emitted after a reply, and the frame step loop's
Listenable == {"chat", "stream_register", "frame_step"}

\* the listeners registered through on()
Registrations(em) ==
    Len(Listeners(em, "chat")) + Len(Listeners(em, "stream_register"))
        + Len(Listeners(em, "frame_step"))

\* add_listener: `new_listener` is emitted, then the listener is the last of
\* the event's
AddListener(em, event, kind) ==
    [em EXCEPT !.listeners =
        [e \in DOMAIN em.listeners \cup {event} |->
            IF e = event
            THEN Append(Listeners(em, e), kind)
            ELSE em.listeners[e]]]

\* on(event, listener), called by the program while the connection runs
On ==
    /\ Registrations(emitter) < MaxListeners
    /\ \E event \in Listenable, kind \in Kinds :
          emitter' =
              AddListener(Emit(emitter, "new_listener").em, event, kind)
    /\ UNCHANGED <<pc, ret, pending, cancelReq, driver, group, lock,
                   writerClosed, conn, net, logs, regStream, counters,
                   framing, outside>>

\* a turn of __frame_step_loop with a frame due: frame_step is emitted
FrameEmit ==
    /\ pc["frame"] = "sleep"
    /\ "frame" \notin cancelReq
    /\ Len(emitter.invoked) < MaxInvoked
    /\ LET e == Emit(emitter, "frame_step")
       IN /\ emitter' = e.em
          /\ IF e.err
             THEN /\ Raise("frame")
                  /\ UNCHANGED <<tgEntered, exitType>>
             ELSE UNCHANGED <<pc, cancelReq, group>>
    /\ UNCHANGED <<ret, pending, driver, lock, writerClosed, conn, net, logs,
                   regStream, counters, framing,
                   outside>>

\* the task of a coroutine listener is done: the done callback takes it out
\* of _waiting and emits `error` with the exception it ended with; the
\* callback runs in the event loop, which logs what the callback raises
ListenerDone ==
    /\ \E f \in emitter.waiting :
          LET left == [emitter EXCEPT !.waiting = @ \ {f}]
          IN emitter' = IF f.kind = "async_raises"
                        THEN EmitError(left).em
                        ELSE left
    /\ UNCHANGED <<pc, ret, pending, cancelReq, driver, group, lock,
                   writerClosed, conn, net, logs, regStream, counters,
                   framing, outside>>

\* a line of chat and the registration of an actor, both of the peer
ListenedPackets ==
    {DataPacket("CHAT", 42, 10, Text(Line)),
     Packet("STREAM_REGISTER", 42, 13, NoInfo,
            PeerStream("ACTOR", 13, "fancy.truck"))}

ListenedSend == Relay(ListenedPackets)

NextEmitter ==
    \/ On
    \/ ListenedSend
    \/ ReaderRecv
    \/ ReaderEmitRegister
    \/ FrameEmit
    \/ ListenerDone

SpecEmitter == InitRegistry /\ [][NextEmitter]_vars

(***************************************************************************)
(* The running client: the recorder commands of a user                     *)
(***************************************************************************)
\* messages the commands give to send_chat, and operations they make on
\* the stream recorder
MaxEffects == 2

\* the arguments of a command: a subcommand or another word, with a stream
\* id or a file name, and one word too many
Arguments ==
    {<<>>}
    \cup {<<s>> : s \in Subcommands \cup {"all"}}
    \cup {<<s, "12">> : s \in Subcommands}
    \cup {<<"start", "12", "13">>}

\* a USER_INFO of the server gives the user an auth_status
Authorize ==
    /\ \E a \in SUBSET Flags : auth' = a
    /\ UNCHANGED <<pc, ret, pending, cancelReq, driver, group, lock,
                   writerClosed, conn, net, logs, regStream, counters,
                   framing, emitter, chats, recorder, announcer, hb,
                   global_stats, countdown, fclock>>

\* _perform_command for a record, playback or recordings command of the
\* user, or for the help of one: InvalidArgumentsError is answered in the
\* chat, another exception is logged
PerformCommand ==
    /\ Len(chats) < MaxEffects
    /\ Len(recorder) < MaxEffects
    /\ \E command \in {"record", "playback", "recordings"}, help \in BOOLEAN,
          args \in Arguments :
          LET done == ExecuteCommand(command, auth, help, args)
          IN /\ recorder' = IF done.op = "None"
                            THEN recorder
                            ELSE Append(recorder, done.op)
             /\ chats' = IF done.err = "InvalidArgumentsError"
                         THEN Append(chats, "Invalid arguments")
                         ELSE IF done.chat = "None"
                         THEN chats
                         ELSE Append(chats, done.chat)
    /\ UNCHANGED <<pc, ret, pending, cancelReq, driver, group, lock,
                   writerClosed, conn, net, logs, regStream, counters,
                   framing, emitter, auth, announcer, hb, global_stats,
                   countdown, fclock>>

NextCommands ==
    \/ Authorize
    \/ PerformCommand

SpecCommands == InitRegistry /\ [][NextCommands]_vars

(***************************************************************************)
(* The running client: the announcements                                   *)
(***************************************************************************)
\* the configuration: the delay and the number of messages; the deltas of
\* the frame step loop and their sum, in ticks of the clock
MaxDelay == 3
MaxMessages == 3
MaxDelta == 2
MaxElapsed == 8

\* the client of any configuration of the announcements is connected
InitAnnouncer ==
    /\ Running
    /\ framed = <<>>
    /\ wire = <<>>
    /\ header = NoHeader
    /\ auth = {}
    /\ chats = <<>>
    /\ recorder = <<>>
    /\ hb = Started
    /\ countdown = NoCountdown
    /\ fclock = FrameStarted
    /\ \E delay \in 1 .. MaxDelay, enabled \in BOOLEAN, n \in 0 .. MaxMessages :
          announcer = Handler(delay, enabled, n)

\* frame_step is emitted with delta: _on_frame_step gives the announcement
\* of try_next, if any, to send_chat
OnFrameStep ==
    /\ pc["frame"] = "sleep"
    /\ \E delta \in 1 .. MaxDelta :
          /\ announcer.elapsed + delta <= MaxElapsed
          /\ LET tried == TryNext(announcer, delta)
             IN /\ announcer' = tried.h
                /\ chats' = IF tried.message = "None"
                            THEN chats
                            ELSE Append(chats, tried.message)
    /\ UNCHANGED <<pc, ret, pending, cancelReq, driver, group, lock,
                   writerClosed, conn, net, logs, regStream, counters,
                   framing, emitter, auth, recorder, hb, global_stats,
                   countdown, fclock>>

NextAnnouncer == OnFrameStep

SpecAnnouncer == InitAnnouncer /\ [][NextAnnouncer]_vars

(***************************************************************************)
(* The running connection: register_stream from the body and a handler     *)
(***************************************************************************)
\* the stream of a recording
PlaybackStream == [NoStream EXCEPT !.type = "ACTOR", !.name = "fancy.truck"]

\* the task of an event handler plays a recording: Recording.play calls
\* register_stream, which takes the ids and suspends in _send
HandlerPlay ==
    /\ pc["handler"] = "init"
    /\ Send("handler", RegisterPacket(Registered(PlaybackStream)),
            "reg_play_done")
    /\ UNCHANGED <<cancelReq, driver, group, writerClosed, conn, net, rx,
                   events, assigned, regStream, counters>>
    /\ UNCHANGED <<framing, emitter, outside>>

\* the handler's register_stream after its _send: add_stream of the stream
\* it has packed, the next id, and the return to Recording.play
HandlerPlayDone ==
    /\ pc["handler"] = "drain"
    /\ ret["handler"] = "reg_play_done"
    /\ "handler" \notin cancelReq
    /\ users' = AddStream(users, pending["handler"].stream)
    /\ stream_id' = NextStreamId(stream_id)
    /\ assigned' = Append(assigned, pending["handler"].stream.origin_stream_id)
    /\ lockHolder' = Release(lockHolder, "handler")
    /\ pc' = [pc EXCEPT !["handler"] = "done"]
    /\ UNCHANGED <<ret, pending, cancelReq, driver, group, lockWaiters,
                   writerClosed, server_info, user_info, is_connected, net,
                   sent, rx, events, regStream, counters>>
    /\ UNCHANGED <<framing, emitter, outside>>

NextRegister ==
    \/ MainRegister
    \/ MainRegUserDone
    \/ HandlerPlay
    \/ HandlerPlayDone
    \/ \E t \in {"main", "handler", "reader"} : LockAcquired(t)
    \/ ListenedSend
    \/ ReaderRecv
    \/ ReaderEmitRegister

SpecRegister == InitRegistry /\ [][NextRegister]_vars

(***************************************************************************)
(* The running connection: packets about the server and the users          *)
(***************************************************************************)
\* a user who is not on the server yet
Guest == [unique_id |-> 0, color_num |-> 1, username |-> "guest"]

\* what the server sends about itself, the bot and the users: HELLO and
\* WELCOME once more, the same and another; the info of the bot, of the peer
\* and of the guest; the peer and the guest joining, and leaving; the peer's
\* character stream, its position and the stream it sits in
IdentityPackets ==
    {Packet("HELLO", 0, 0, NoInfo, NoStream),
     DataPacket("HELLO", 0, 0, [kind |-> "server_info", info |-> "Moved"])}
    \cup {Packet("WELCOME", i.unique_id, 0, i, NoStream) :
            i \in {Bot, [Bot EXCEPT !.username = "tob"], Guest}}
    \cup {Packet("USER_INFO", i.unique_id, 0, i, NoStream) :
            i \in {[Bot EXCEPT !.color_num = 5],
                   [Peer EXCEPT !.username = "reep"], Guest}}
    \cup {Packet("USER_JOIN", i.unique_id, 0, i, NoStream) :
            i \in {Peer, Guest}}
    \cup {Packet("USER_LEAVE", u, 0, NoInfo, NoStream) : u \in {0, 42}}
    \cup {Packet("STREAM_REGISTER", 42, 12, NoInfo,
                 PeerStream("CHARACTER", 12, "default"))}
    \cup {DataPacket("STREAM_DATA", 42, 12, PositionData(1)),
          DataPacket("STREAM_DATA", 42, 12, AttachData(7, 11))}

IdentitySend == Relay(IdentityPackets)

NextIdentity ==
    \/ IdentitySend
    \/ ReaderRecv
    \/ MainSendChat
    \/ Drained("main")

SpecIdentity == InitRegistry /\ [][NextIdentity]_vars

(***************************************************************************)
(* The running connection: the distances of a peer who leaves              *)
(***************************************************************************)
MaxTravel == 5

\* the files of the actors a peer drives, sails and flies
ActorFiles == {"fancy.truck", "raft.boat", "jet.airplane"}

\* the peer registers its character and an actor, moves them, and leaves;
\* and a user who is not on the server leaves
TravelPackets ==
    {Packet("STREAM_REGISTER", 42, 12, NoInfo,
            PeerStream("CHARACTER", 12, "default"))}
    \cup {Packet("STREAM_REGISTER", 42, 13, NoInfo,
                 PeerStream("ACTOR", 13, name)) : name \in ActorFiles}
    \cup {DataPacket("STREAM_DATA", 42, 12, PositionData(k)) : k \in {1, 2}}
    \cup {DataPacket("STREAM_DATA", 42, 13, ActorData(k)) : k \in {1, 2}}
    \cup {Packet("USER_LEAVE", u, 0, NoInfo, NoStream) : u \in {0, 42}}

\* the server relays one more of these packets
TravelSend ==
    /\ Len(framed) < MaxTravel
    /\ "reader" \in Alive
    /\ \E p \in TravelPackets :
          /\ inbox' = Append(inbox, p)
          /\ framed' = Append(framed, p)
    /\ nIn' = nIn + 1
    /\ UNCHANGED <<pc, ret, pending, cancelReq, driver, group, lock,
                   writerClosed, conn, logs, regStream, counters, wire,
                   header, emitter, outside>>

NextTravel ==
    \/ TravelSend
    \/ ReaderRecv
    \/ ReaderEmitRegister

SpecTravel == InitRegistry /\ [][NextTravel]_vars

(***************************************************************************)
(* The running connection: move_bot and the first heartbeats               *)
(***************************************************************************)
\* where the body moves the bot to
Moves == {Step(k) : k \in {1, 2}}

\* the CharacterPositionStreamData of move_bot
MovePacket(position) ==
    [Packet("STREAM_DATA", user_info.unique_id, Me.character_stream_id,
            NoInfo, NoStream)
       EXCEPT !.data =
           [kind |-> "position", position |-> position,
            rotation |-> Me.streams[Me.character_stream_id].rotation,
            animation_time |-> 0]]

\* the body calls move_bot: the position is stored on the bot's character
\* stream register and sent
MainMove ==
    /\ pc["main"] = "running"
    /\ "main" \notin cancelReq
    /\ nCalls < MaxCalls
    /\ nCalls' = nCalls + 1
    /\ \E position \in Moves :
          /\ users' = [users EXCEPT
                          ![user_info.unique_id]
                              .streams[Me.character_stream_id].position =
                                  position]
          /\ Send("main", MovePacket(position), "running")
    /\ UNCHANGED <<cancelReq, driver, group, writerClosed, server_info,
                   user_info, stream_id, is_connected, net, rx, events,
                   assigned, regStream, nHeartbeats, nAnnouncements>>
    /\ UNCHANGED <<framing, emitter, outside>>

\* __aenter__ has just returned: the heartbeat task is created and has not
\* run yet
InitMove ==
    /\ pc = [RunningPc EXCEPT !["heartbeat"] = "start"]
    /\ Connected
    /\ ClientConstructed
    /\ framed = <<>>
    /\ wire = <<>>
    /\ header = NoHeader

NextMove ==
    \/ MainMove
    \/ HbStart
    \/ HbTick
    \/ FrameTick
    \/ HandlerRun
    \/ \E t \in {"main", "heartbeat", "handler"} : Drained(t)
    \/ \E t \in {"main", "heartbeat", "handler"} : LockAcquired(t)

SpecMove == InitMove /\ [][NextMove]_vars

(***************************************************************************)
(* The running client: the countdown                                       *)
(***************************************************************************)
MaxSeconds == 2
MaxFrames == 6

\* `if time >= 1`: a second, in ticks of 50 ms
SecondTicks == 20

\* the delta of a frame_step: a frame of 50 ms, and one a second long
Deltas == {1, SecondTicks}

\* a line given to send_chat: the colour or kind of the line and its number
Said(text, k) == <<text, k>>

\* the COUNTDOWN command with one argument, n >= 1: the start is announced,
\* time is 1 and on_frame_step is registered on frame_step
CountdownCommand ==
    /\ countdown = NoCountdown
    /\ \E n \in 1 .. MaxSeconds :
          /\ chats' = Append(chats, Said("started", n))
          /\ countdown' = [NoCountdown EXCEPT !.n = n, !.seconds = n,
                                              !.time = SecondTicks,
                                              !.listening = TRUE]
    /\ UNCHANGED <<pc, ret, pending, cancelReq, driver, group, lock,
                   writerClosed, conn, net, logs, regStream, counters,
                   framing, emitter, auth, recorder, announcer, hb,
                   global_stats, fclock>>

\* on_frame_step after `await self.send_chat(...)` of a number
AfterNumber(c) == [c EXCEPT !.seconds = @ - 1, !.time = 0]

\* on_frame_step after `await self.send_chat(...)` of GO!!!: remove_listener
AfterGo(c) == [c EXCEPT !.listening = FALSE, !.removed = @ + 1]

\* frame_step is emitted with delta and on_frame_step runs as a task of its
\* own, up to the end or to a send_chat that suspends it (the writer lock
\* is taken, or drain() waits for the transport)
CountdownFrame ==
    /\ countdown.listening
    /\ countdown.frames < MaxFrames
    /\ \E delta \in Deltas, suspends \in BOOLEAN :
          LET c == [countdown EXCEPT !.time = @ + delta, !.frames = @ + 1]
              waits(kind) == [c EXCEPT !.suspended = Append(@, kind)]
          IN IF c.time < SecondTicks
             THEN /\ countdown' = c
                  /\ chats' = chats
             ELSE IF c.seconds > 0
             THEN /\ chats' = Append(chats, Said("red", c.seconds))
                  /\ countdown' = IF suspends THEN waits("red")
                                  ELSE AfterNumber(c)
             ELSE /\ chats' = Append(chats, Said("green", 0))
                  /\ countdown' = IF suspends THEN waits("green")
                                  ELSE AfterGo(c)
    /\ UNCHANGED <<pc, ret, pending, cancelReq, driver, group, lock,
                   writerClosed, conn, net, logs, regStream, counters,
                   framing, emitter, auth, recorder, announcer, hb,
                   global_stats, fclock>>

\* the send_chat of the invocation suspended first returns
CountdownResume ==
    /\ countdown.suspended # <<>>
    /\ LET c == [countdown EXCEPT !.suspended = Tail(@)]
       IN countdown' = IF Head(countdown.suspended) = "red"
                       THEN AfterNumber(c)
                       ELSE AfterGo(c)
    /\ UNCHANGED <<pc, ret, pending, cancelReq, driver, group, lock,
                   writerClosed, conn, net, logs, regStream, counters,
                   framing, emitter, client, hb, global_stats, fclock>>

NextCountdown ==
    \/ CountdownCommand
    \/ CountdownFrame
    \/ CountdownResume

SpecCountdown == InitRegistry /\ [][NextCountdown]_vars

(***************************************************************************)
(* The running connection: unregister_stream from the body                 *)
(***************************************************************************)
UnregisterPacket(sid) ==
    Packet("STREAM_UNREGISTER", user_info.unique_id, sid, NoInfo, NoStream)

\* the body calls unregister_stream with the id of a stream of the bot
MainUnregister ==
    /\ pc["main"] = "running"
    /\ "main" \notin cancelReq
    /\ nCalls < MaxCalls
    /\ nCalls' = nCalls + 1
    /\ \E sid \in {s \in Sids : HasStream(Me, s)} :
          Send("main", UnregisterPacket(sid), "unreg_done")
    /\ UNCHANGED <<cancelReq, driver, group, writerClosed, conn, net, rx,
                   events, assigned, regStream, nHeartbeats, nAnnouncements>>
    /\ UNCHANGED <<framing, emitter, outside>>

\* unregister_stream after its _send: it returns to the body, the packet
\* sent is all it does
MainUnregDone ==
    /\ pc["main"] = "drain"
    /\ ret["main"] = "unreg_done"
    /\ "main" \notin cancelReq
    /\ lockHolder' = Release(lockHolder, "main")
    /\ pc' = [pc EXCEPT !["main"] = "running"]
    /\ UNCHANGED <<ret, pending, cancelReq, driver, group, lockWaiters,
                   writerClosed, conn, net, logs, regStream, counters>>
    /\ UNCHANGED <<framing, emitter, outside>>

NextUnregister ==
    \/ MainRegister
    \/ MainRegUserDone
    \/ MainUnregister
    \/ MainUnregDone
    \/ \E t \in {"main", "reader"} : LockAcquired(t)
    \/ ListenedSend
    \/ ReaderRecv
    \/ ReaderEmitRegister

SpecUnregister == InitRegistry /\ [][NextUnregister]_vars

(***************************************************************************)
(* The running connection: the exit over a broken socket                   *)
(***************************************************************************)
\* the drain() of __aexit__'s USER_LEAVE raises ConnectionResetError, the
\* socket being broken: `async with self._writer_lock` releases the lock and
\* the exception leaves _send and __aexit__, which catches nothing
ExitSendFails ==
    /\ pc["main"] = "drain"
    /\ ret["main"] = "aexit_join"
    /\ "main" \notin cancelReq
    /\ MainEnds("ConnectionResetError", pc)
    /\ lockHolder' = Release(lockHolder, "main")
    /\ UNCHANGED <<ret, pending, cancelReq, attempt, opens, sleeps, group,
                   lockWaiters, writerClosed, conn, net, logs, regStream,
                   counters>>
    /\ UNCHANGED <<framing, emitter, outside>>

NextExit ==
    \/ MainExit
    \/ MainCancelled
    \/ MainJoin
    \/ ExitSendFails
    \/ ServerSend
    \/ ReaderRecv
    \/ ReaderEmitRegister
    \/ HbTick
    \/ \E t \in Tasks : LockAcquired(t)
    \/ \E t \in Tasks : Drained(t)
    \/ \E t \in GroupTasks : Cancelled(t)

SpecExit == InitRegistry /\ [][NextExit]_vars

(***************************************************************************)
(* The running connection: the heartbeats in time                          *)
(***************************************************************************)
\* the time observed, and the ticks a sleep, with the send before it, may
\* last beyond those asked for
MaxTime == 70
MaxJitter == 1

\* (a variant of IntervalPassed that compares with the sleep)
SleepPassed(delta) == delta >= SleepTicks

\* `if delta >= self._heartbeat_interval`
IntervalPassed(delta) == delta >= IntervalTicks

\* a tick of the clock: the loop wakes MaxJitter ticks after its sleep is
\* over at the latest
ClockTick ==
    /\ hb.now < MaxTime
    /\ hb.now < hb.due + MaxJitter
    /\ hb' = [hb EXCEPT !.now = @ + 1]
    /\ UNCHANGED <<pc, ret, pending, cancelReq, driver, group, lock,
                   writerClosed, conn, net, logs, regStream, counters,
                   framing, emitter, client, global_stats,
                   countdown, fclock>>

\* a turn of __heartbeat_loop after its sleep: the time since the last turn
\* is added to delta; when the interval has passed delta is reset and the
\* character position is sent (the lock is free, the write is made at once)
HbTurn ==
    /\ pc["heartbeat"] = "sleep"
    /\ is_connected
    /\ hb.now >= hb.due
    /\ LET delta == hb.delta + (hb.now - hb.curr_time)
           beat == IntervalPassed(delta)
           after == IF beat THEN ResetDelta ELSE delta
       IN /\ hb' = [hb EXCEPT !.curr_time = hb.now,
                              !.delta = after,
                              !.due = hb.now + SleepTicks]
          /\ nHeartbeats' = IF beat THEN nHeartbeats + 1 ELSE nHeartbeats
          /\ sent' = IF beat THEN Append(sent, Heartbeat(after)) ELSE sent
    /\ UNCHANGED <<pc, ret, pending, cancelReq, driver, group, lock,
                   writerClosed, conn, net, rx, events, assigned, regStream,
                   nAnnouncements, nCalls, framing, emitter, client,
                   global_stats, countdown, fclock>>

NextHeartbeat ==
    \/ ClockTick
    \/ HbTurn

SpecHeartbeat == InitRegistry /\ [][NextHeartbeat]_vars

(***************************************************************************)
(* Properties                                                              *)
(***************************************************************************)
Indices(seq) == 1 .. Len(seq)

\* the positions of seq whose element satisfies Test
Where(seq, Test(_)) == {i \in Indices(seq) : Test(seq[i])}

IsType(p, type) == p.type = type
IsRegister(p, type) == p.type = "STREAM_REGISTER" /\ p.stream.type = type

\* C1: during connect the client's packets and the server's replies
\* alternate in a fixed order: HELLO is the first packet sent; USER_INFO is
\* sent only when the server's HELLO has been processed; a STREAM_REGISTER
\* is sent only when the server's WELCOME has been processed; the chat
\* STREAM_REGISTER is sent before the character one; and is_connected is
\* true only when both STREAM_REGISTER packets have been sent
C1_HandshakeOrder ==
    /\ sent # <<>> => sent[1].type = "HELLO"
    /\ Where(sent, LAMBDA p : IsType(p, "USER_INFO")) # {}
          => Where(rx, LAMBDA p : IsType(p, "HELLO")) # {}
    /\ Where(sent, LAMBDA p : IsType(p, "STREAM_REGISTER")) # {}
          => Where(rx, LAMBDA p : IsType(p, "WELCOME")) # {}
    /\ \A i \in Where(sent, LAMBDA p : IsRegister(p, "CHARACTER")) :
          \E j \in Where(sent, LAMBDA p : IsRegister(p, "CHAT")) : j < i
    /\ \A i \in Where(sent, LAMBDA p : IsType(p, "USER_INFO")) :
          \A j \in Where(sent, LAMBDA p : IsType(p, "STREAM_REGISTER")) : i < j
    /\ is_connected
          => /\ Where(sent, LAMBDA p : IsRegister(p, "CHAT")) # {}
             /\ Where(sent, LAMBDA p : IsRegister(p, "CHARACTER")) # {}

\* the connect has gone through: the connection is running
C1_Witness ==
    /\ is_connected
    /\ pc["main"] = "running"
    /\ Len(sent) = 4
    /\ Len(rx) = 2

\* C2: the stream ids register_stream assigns, call after call, are
\* strictly increasing and start at 10; no stream the bot registered has an
\* id below 10
C2_StreamIds ==
    /\ assigned # <<>> => assigned[1] = 10
    /\ \A i, j \in Indices(assigned) : i < j => assigned[i] < assigned[j]
    /\ \A i \in Indices(assigned) : assigned[i] >= 10
    /\ \A i \in Where(sent, LAMBDA p : IsType(p, "STREAM_REGISTER")) :
          sent[i].stream_id >= 10 /\ sent[i].stream.origin_stream_id >= 10

\* register_stream has been called three times: by the connect for the chat
\* and the character streams, and by the body for an actor
C2_Witness == assigned = <<10, 11, 12>>

\* the tasks inside the write-and-drain section of _send
Writing == {t \in Tasks : pc[t] = "drain"}

\* C3: whatever the interleaving of the tasks that send (the reader's
\* replies, the heartbeat, the event handler, the calls of the body, the
\* exit), at most one task is inside the write-and-drain section of _send,
\* and it holds the writer lock; every write puts one whole packet on the
\* wire
C3_OneWriter ==
    /\ Cardinality(Writing) <= 1
    /\ \A t \in Writing : lockHolder = t
    /\ \A t \in Tasks : pc[t] = "lock_wait" =>
          \E i \in Indices(lockWaiters) : lockWaiters[i] = t
    /\ \A t \in Writing : sent # <<>> /\ sent[Len(sent)] = pending[t]

\* one task is in write-and-drain while two others wait for the lock
C3_Witness ==
    /\ Writing # {}
    /\ Len(lockWaiters) >= 2

\* the reader loop raised while the connection was running
ReaderFailedRunning == pc["reader"] = "failed" /\ Len(assigned) >= 2

\* C4 as the spec states it: when the reader loop raises in the running
\* state (the bot's own USER_LEAVE, or any other error) the session is torn
\* down, so once the main task has ended the three loop tasks have stopped,
\* the writer is closed and is_connected is false
C4_TornDown ==
    (ReaderFailedRunning /\ pc["main"] \in Ended)
        => (Alive = {} /\ writerClosed /\ ~is_connected)

\* a refusal was dispatched during the handshake
RefusedInHandshake ==
    /\ rx # <<>>
    /\ rx[Len(rx)].type \in Refusals
    /\ Len(assigned) < 2

\* C6: when the server answers the handshake with SERVER_FULL,
\* WRONG_PASSWORD, WRONG_VERSION or BANNED, the connect fails (the main task
\* is cancelled and ends with an exception), the running state is never
\* reached and is_connected stays false, and the reconnect driver makes no
\* further attempt
C6_RefusalFails ==
    RefusedInHandshake =>
        /\ pc["reader"] = "failed"
        /\ "main" \in cancelReq \/ pc["main"] = "failed"
        /\ pc["main"] # "running"
        /\ ~is_connected
        /\ opens = 1
        /\ attempt = 0
        /\ sleeps = 0

\* the connect has failed on a refusal that came after the server's HELLO
C6_Witness ==
    /\ RefusedInHandshake
    /\ pc["main"] = "failed"
    /\ server_info # None

\* C7 as the spec states it: when every attempt to open the connection is
\* refused, the driver has made exactly reconnection_tries attempts, has
\* slept between them and not after the last, and ends with a connection
\* error
C7_AllAttempts ==
    (pc["main"] = "failed" /\ pc["reader"] = "init")
        => /\ opens = ReconnectionTries
           /\ sleeps = ReconnectionTries - 1
           /\ mainErr = "ConnectionError"

\* the scope was exited without an error and __aexit__ waits for the task
\* group, no task of the group has raised, and nothing the server has sent
\* is left to read
ExitWaiting ==
    /\ pc["main"] = "aexit_join"
    /\ exitType = None
    /\ ~tgErrors
    /\ inbox = <<>>

SessionClosed ==
    /\ \E i \in Indices(sent) : sent[i].type = "USER_LEAVE"
    /\ Alive = {}
    /\ writerClosed
    /\ ~is_connected

\* C5 as the spec states it: when the scope is exited without an error, the
\* exit terminates by itself: USER_LEAVE is sent, the three loop tasks are
\* cancelled, the writer is closed and is_connected is false, unless the
\* server sends something more
C5_ExitTerminates == ExitWaiting ~> (SessionClosed \/ inbox # <<>>)

\* the server has answered HELLO with its HELLO and USER_INFO with WELCOME
Welcomed ==
    /\ \E i \in Indices(rx) : rx[i].type = "HELLO"
    /\ \E i \in Indices(rx) : rx[i].type = "WELCOME"
    /\ \E i \in Indices(sent) : sent[i].type = "USER_INFO"

\* C8 as the spec states it: once the server has answered HELLO and
\* WELCOME, whatever UserInfo the WELCOME carries, the connect leaves the
\* wait for the WELCOME and reaches the running state, unless the reader
\* loop has ended
C8_WelcomeProceeds ==
    Welcomed ~> (is_connected \/ pc["reader"] \in Ended)

\* the STREAM_REGISTER_RESULT packets on the wire, the ACTOR stream
\* registers dispatched, and the stream_register events emitted for actors
Results == Where(sent, LAMBDA p : IsType(p, "STREAM_REGISTER_RESULT"))
ActorRegisters == Where(rx, LAMBDA p : IsRegister(p, "ACTOR"))
ActorEvents ==
    Where(events, LAMBDA e : e.name = "stream_register" /\ e.stream.type = "ACTOR")
OtherEvents ==
    Where(events, LAMBDA e : e.name = "stream_register" /\ e.stream.type # "ACTOR")

\* every reply on the wire answers an ACTOR stream register that was
\* dispatched, with its stream id and SUCCESS; the replies are never more
\* than the registers nor fewer than the events, and a reader that waits
\* for the next packet has answered each register once
ReplyCounts ==
    /\ \A i \in Results :
          /\ sent[i].stream_id = sent[i].stream.origin_stream_id
          /\ sent[i].stream.status = SUCCESS
          /\ sent[i].stream.type = "ACTOR"
          /\ \E j \in ActorRegisters :
                /\ rx[j].stream.origin_stream_id = sent[i].stream_id
                /\ rx[j].stream.origin_source_id = sent[i].stream.origin_source_id
    /\ Cardinality(ActorEvents) <= Cardinality(Results)
    /\ Cardinality(Results) <= Cardinality(ActorRegisters)
    /\ pc["reader"] = "recv" =>
          /\ Cardinality(Results) = Cardinality(ActorRegisters)
          /\ Cardinality(ActorEvents) = Cardinality(ActorRegisters)
    /\ At("reader", "emit_register") =>
          /\ Cardinality(Results) = Cardinality(ActorRegisters)
          /\ Cardinality(ActorEvents) = Cardinality(ActorRegisters) - 1

\* a step that writes a STREAM_REGISTER_RESULT writes it with the unique_id
\* the bot has at that moment, and emits nothing in the same step
ReplySource ==
    (Len(sent') > Len(sent) /\ sent'[Len(sent')].type = "STREAM_REGISTER_RESULT")
        => /\ sent'[Len(sent')].source = user_info'.unique_id
           /\ events' = events

Intact ==
    /\ Len(rx) <= Len(framed)
    /\ \A i \in Indices(rx) : rx[i] = framed[i]

\* C10 as the spec states it: however the bytes of the stream are split
\* into chunks, the reader takes exactly 16 bytes of header and then exactly
\* size bytes of payload: every packet dispatched carries the size bytes
\* that followed its header, the next header is read right after them, and
\* a well-formed packet is dispatched intact, never refused
C10_ExactFraming ==
    /\ pc["reader"] # "failed"
    /\ Intact
    /\ (wire = <<>> /\ inbox = <<>> /\ pc["reader"] = "header") => rx = framed

\* the packets dispatched since the connection is running (the packets of
\* Running's handshake left out), in the order of their dispatch
Relayed ==
    SelectSeq(rx, LAMBDA p : p.type \notin {"HELLO", "WELCOME", "USER_JOIN"})

\* the event a packet type is published as
EventOf(type) ==
    CASE type = "STREAM_REGISTER" -> "stream_register"
      [] type = "STREAM_UNREGISTER" -> "stream_unregister"
      [] type \in {"STREAM_DATA", "STREAM_DATA_DISCARDABLE"} -> "stream_data"
      [] type = "CHAT" -> "chat"
      [] type = "PRIVATE_CHAT" -> "private_chat"
      [] type = "GAME_CMD" -> "game_cmd"
      [] type = "USER_INFO" -> "user_info"
      [] type = "USER_JOIN" -> "user_join"
      [] type = "USER_LEAVE" -> "user_leave"
      [] OTHER -> "none"

\* the packets dispatched and the packets under way are, in this order, the
\* packets that arrived
InOrder == Relayed \o inbox = framed

\* a step dispatches a packet only when the reader is at the head of its
\* loop, and then the packet that arrived first; a step that changes the
\* users is the dispatch of a packet; a step that emits emits one event, of
\* the packet dispatched last
InTurn ==
    /\ rx' # rx =>
          /\ pc["reader"] = "recv"
          /\ inbox # <<>>
          /\ rx' = Append(rx, Head(inbox))
          /\ inbox' = Tail(inbox)
    /\ users' # users => rx' # rx
    /\ events' # events =>
          /\ events' = Append(events, events'[Len(events')])
          /\ rx' # <<>>
          /\ events'[Len(events')].name = EventOf(rx'[Len(rx')].type)
          /\ events'[Len(events')].uid = rx'[Len(rx')].source
          /\ rx' = rx => At("reader", "emit_register")

\* C11: inbound packets are dispatched in exactly the order they arrive,
\* and the registry changes and the event of a packet happen before the
\* reader reads the header of the next packet, so the events are emitted in
\* the order the packets arrived
C11_ArrivalOrder == []InOrder /\ [][InTurn]_vars

\* the reader is sending the reply to an actor's register while two more
\* packets have arrived
C11_Witness ==
    /\ At("reader", "emit_register")
    /\ Len(inbox) = 2
    /\ Len(Relayed) = 1

\* the payload holds a byte that is not NUL
HasText(p) == \E i \in Indices(p.data.text) : p.data.text[i] # 0

\* the packets of a text type dispatched from another source with a text,
\* and the events of its name
Lines(type) ==
    Where(Relayed, LAMBDA p : p.type = type /\ p.source # user_info.unique_id
                              /\ HasText(p))
Named(name) == Where(events, LAMBDA e : e.name = name)

\* C12: no chat, private_chat or game_cmd event carries the bot's own
\* unique_id; none is emitted for a payload that is empty once its NUL bytes
\* are stripped; and each CHAT, PRIVATE_CHAT or GAME_CMD packet of another
\* source with a text has emitted exactly one event of its kind
C12_TextEvents ==
    /\ \A i \in Indices(events) :
          events[i].name \in {"chat", "private_chat", "game_cmd"}
              => events[i].uid # user_info.unique_id
    /\ \A t \in TextTypes :
          Cardinality(Named(EventOf(t))) = Cardinality(Lines(t))

\* a line of the peer, NUL bytes of the peer and a line of the bot's own
\* were dispatched as CHAT: one chat event
C12_Witness ==
    /\ Cardinality(Where(Relayed, LAMBDA p : p.type = "CHAT")) = 3
    /\ Cardinality(Lines("CHAT")) = 1
    /\ \E i \in Indices(Relayed) :
          Relayed[i].type = "CHAT" /\ Relayed[i].source = user_info.unique_id
    /\ Cardinality(Named("chat")) = 1

\* C13 as the spec states it: whatever packets were dispatched, the
\* current_stream of every user is the sentinel (-1, -1) or a pair whose
\* stream id is a key of that user's streams
C13_CurrentStreamValid ==
    \A u \in Uids :
        users[u].present =>
            \/ users[u].current_stream = NoCurrent
            \/ HasStream(users[u], users[u].current_stream.stream_id)

\* one step, for the character_stream_id or chat_stream_id of user u (old
\* before the step, new after it) and the stream type it stands for: the id
\* is set from -1 only when no stream of that type of u was registered
\* before; it changes in no other way than back to -1, in the step that
\* dispatches the STREAM_UNREGISTER of the stream with that id; and that
\* step does set it back
SetOnce(u, type, old, new) ==
    LET unregistered ==
            /\ rx' = Append(rx, rx'[Len(rx')])
            /\ rx'[Len(rx')].type = "STREAM_UNREGISTER"
            /\ rx'[Len(rx')].source = u
            /\ rx'[Len(rx')].stream_id = old
    IN /\ (old = -1 /\ new # -1) =>
             ~\E i \in Indices(rx) : IsRegister(rx[i], type) /\ rx[i].source = u
       /\ (old # -1 /\ new # old) => (new = -1 /\ unregistered)
       /\ (old # -1 /\ unregistered) => new = -1

StreamIdsSetOnce ==
    \A u \in Uids :
        (users[u].present /\ users'[u].present) =>
            /\ SetOnce(u, "CHARACTER", users[u].character_stream_id,
                       users'[u].character_stream_id)
            /\ SetOnce(u, "CHAT", users[u].chat_stream_id,
                       users'[u].chat_stream_id)

\* C14 as the spec states it: in the lifetime of a user, whatever streams
\* are registered and unregistered, character_stream_id (and chat_stream_id)
\* goes from -1 to a stream id at most once, and goes back to -1 exactly
\* when the stream with that id is unregistered
C14_StreamIdsSetOnce == [][StreamIdsSetOnce]_vars

\* the step dispatches packet p, a STREAM_DATA from a known peer on a stream
\* of the given type that the peer has registered
DataDispatch(p, type) ==
    /\ rx' = Append(rx, p)
    /\ p.type = "STREAM_DATA"
    /\ p.source # user_info.unique_id
    /\ Known(users, p.source)
    /\ HasStream(users[p.source], p.stream_id)
    /\ users[p.source].streams[p.stream_id].type = type

\* the step emits exactly one event, a stream_data of p's source
OneStreamData(p) ==
    /\ events' = Append(events, events'[Len(events')])
    /\ events'[Len(events')].name = "stream_data"
    /\ events'[Len(events')].uid = p.source

\* after the step the peer's current_stream is the stream of p
CurrentIs(p) ==
    users'[p.source].current_stream =
        [unique_id |-> p.source, stream_id |-> p.stream_id]

PositionStored(p) ==
    users'[p.source].streams[p.stream_id].position = p.data.position

CharacterData ==
    \A p \in PeerPackets :
        (DataDispatch(p, "CHARACTER") /\ p.data.kind = "position") =>
            /\ PositionStored(p)
            /\ users'[p.source].streams[p.stream_id].rotation = p.data.rotation
            /\ CurrentIs(p)
            /\ OneStreamData(p)

\* C15 as the spec states it: the dispatch of a STREAM_DATA from a known
\* peer on its CHARACTER stream with a CharacterPositionStreamData leaves
\* the stream's position and rotation equal to the decoded ones, sets the
\* peer's current_stream to (source, sid) and emits exactly one stream_data
C15_CharacterData == [][CharacterData]_vars

ReaderAlive == pc'["reader"] \notin Ended

ActorDataStep ==
    \A p \in PeerPackets :
        (DataDispatch(p, "ACTOR") /\ p.data.kind = "actor") =>
            /\ PositionStored(p)
            /\ CurrentIs(p)
            /\ OneStreamData(p)
            /\ ReaderAlive

\* C16 as the spec states it: the dispatch of a STREAM_DATA from a known
\* peer on its ACTOR stream stores the decoded position, sets the peer's
\* current_stream to (source, sid), emits exactly one stream_data and leaves
\* the reader running, whichever other streams the peer has registered, a
\* character stream or none
C16_ActorData == [][ActorDataStep]_vars

\* set_position(uid, sid, p) as the spec states it, on the walked meters and
\* the stored position of user before and after the call
Walked(before, after, sid, p) ==
    LET delta == Distance(p, before.streams[sid].position) IN
    IF delta >= 1
    THEN /\ after.meters_walked = before.meters_walked + delta
         /\ after.streams[sid].position = p
    ELSE /\ after.meters_walked = before.meters_walked
         /\ after.streams[sid].position = before.streams[sid].position

WalkedMeters ==
    \A p \in PeerPackets :
        (DataDispatch(p, "CHARACTER") /\ p.data.kind = "position") =>
            Walked(users[p.source], users'[p.source], p.stream_id,
                   p.data.position)

\* C17 as the spec states it: set_position(uid, sid, p) on a CHARACTER
\* stream adds to the walked meters exactly the distance between the stored
\* position and p and stores p when that distance is 1 m or more, and
\* changes neither the meters nor the stored position when it is less
C17_WalkedMeters == [][WalkedMeters]_vars

\* packet p is a STREAM_DATA of a source that is no known user, or on a
\* stream that user has not registered
Unknown(p) ==
    /\ p.type = "STREAM_DATA"
    /\ ~Known(users, p.source) \/ ~HasStream(users[p.source], p.stream_id)

SilentDrop ==
    \A p \in PeerPackets :
        (rx' = Append(rx, p) /\ Unknown(p)) =>
            /\ events' = events
            /\ users' = users
            /\ pc' = pc
            /\ tgErrors' = tgErrors
            /\ cancelReq' = cancelReq
            /\ sent' = sent

\* C18: a STREAM_DATA whose source is not a known user, or whose stream_id
\* is no registered stream of that user, is dropped silently: its dispatch
\* emits no event, leaves the registry as it is, raises no error into the
\* task group, and the reader goes on to the next packet
C18_SilentDrop == [][SilentDrop]_vars

\* data of an unknown user and data on a stream the peer has not registered
\* were dispatched, and the reader is back at the head of its loop
C18_Witness ==
    /\ \E i \in Indices(Relayed) : Relayed[i].source = 43
    /\ \E i \in Indices(Relayed) :
          Relayed[i].source = 42 /\ Relayed[i].stream_id = 11
    /\ events = <<Event("user_join", 42, NoStream)>>
    /\ pc["reader"] = "recv"
    /\ inbox = <<>>

\* the STREAM_DATA packet with the source, stream_id and payload of p
AsStreamData(p) == [p EXCEPT !.type = "STREAM_DATA"]

SameAsStreamData ==
    \A p \in PeerPackets :
        (rx' = Append(rx, p) /\ p.type = "STREAM_DATA_DISCARDABLE") =>
            /\ users' = ParsePacket(AsStreamData(p)).us
            /\ events' = ParsePacket(AsStreamData(p)).ev
            /\ (pc'["reader"] \in Ended) = ParsePacket(AsStreamData(p)).err

\* C19 as the spec states it: the dispatch of a STREAM_DATA_DISCARDABLE
\* changes the registry and emits stream_data exactly as the dispatch of a
\* STREAM_DATA with the same source, stream_id and payload would, and ends
\* the reader loop only where that would
C19_Discardable == [][SameAsStreamData]_vars

\* the calls of listeners made in the step
NewCalls ==
    SubSeq(emitter'.invoked, Len(emitter.invoked) + 1, Len(emitter'.invoked))

\* the step emits event e: a handler of the reader that publishes it, or
\* the frame step loop, whose first call is of a listener of frame_step
EmitsEvent(e) ==
    /\ emitter'.listeners = emitter.listeners
    /\ \/ events' # events /\ events'[Len(events')].name = e
       \/ NewCalls # <<>> /\ NewCalls[1][1] = e

\* the three loops of the connection go on
LoopsGoOn == \A t \in {"reader", "heartbeat", "frame"} : pc'[t] \notin Ended

\* every listener of e is called, in registration order; the call of one
\* that raises is followed by the call of _error; a coroutine listener is
\* scheduled
AllCalled(e) ==
    LET fs == Listeners(emitter, e) IN
    /\ SelectSeq(NewCalls, LAMBDA c : c[1] = e) = [i \in 1 .. Len(fs) |-> Call(e, i)]
    /\ \A k \in 1 .. Len(NewCalls) :
          (NewCalls[k][1] = e /\ fs[NewCalls[k][2]] = "raises") =>
              k < Len(NewCalls) /\ NewCalls[k + 1] = Call("error", 1)
    /\ \A i \in 1 .. Len(fs) :
          fs[i] \in {"async_returns", "async_raises"} =>
              \E f \in emitter'.waiting \ emitter.waiting :
                  f.event = e /\ f.i = i

\* the task of a coroutine listener ends: _error is called if it raised
TaskEnded ==
    \A f \in emitter.waiting \ emitter'.waiting :
        /\ f.kind = "async_raises" => NewCalls = <<Call("error", 1)>>
        /\ pc' = pc

HandlerErrors ==
    /\ \A e \in Listenable : EmitsEvent(e) => AllCalled(e) /\ LoopsGoOn
    /\ TaskEnded

\* C20: an emission calls every listener of the event in registration
\* order; an exception a listener raises, at its call or in its task, is
\* published as an `error` event (_error is called), the listeners after it
\* are still called, and the reader, heartbeat and frame step loops go on
C20_HandlerErrors == [][HandlerErrors]_vars

\* a line of chat went to a listener that raised and to a coroutine
\* listener whose task raised: both exceptions reached _error, and the
\* three loops run
C20_Witness ==
    /\ Listeners(emitter, "chat") = <<"raises", "async_raises">>
    /\ Len(emitter.invoked) >= 4
    /\ SubSeq(emitter.invoked, Len(emitter.invoked) - 3, Len(emitter.invoked))
           = <<Call("chat", 1), Call("error", 1), Call("chat", 2),
               Call("error", 1)>>
    /\ emitter.waiting = {}
    /\ \A t \in {"reader", "heartbeat", "frame"} : pc[t] \notin Ended

\* the user has the MOD flag or the ADMIN flag, whatever other flags
Privileged == auth \cap {"MOD", "ADMIN"} # {}

\* the step runs a command of the user, not the help of one
RunsCommand == auth' = auth /\ <<chats, recorder>>' # <<chats, recorder>>

GuardedByFlags ==
    RunsCommand /\ (chats' = chats \/ chats'[Len(chats')] # "usage") =>
        IF Privileged
        THEN chats' = chats
                \/ chats'[Len(chats')] # "You do not have permission to do that"
        ELSE /\ recorder' = recorder
             /\ chats' = Append(chats, "You do not have permission to do that")

\* C21 as the spec states it: a record, playback or recordings command of a
\* user with the MOD or the ADMIN flag among the flags is not answered with
\* the refusal; for a user with neither flag the command makes no recorder
\* operation and its one effect is the refusal in the chat
C21_GuardedByFlags == [][GuardedByFlags]_vars

\* the announcement of the message at index i of the list
Announcement(i) == <<"ANNOUNCEMENT", announcer.messages[i + 1]>>

Ticker == announcer.enabled /\ announcer.messages # <<>>

\* every delta so far was a divisor of the delay, so that k * delay of delta
\* has given k announcements
OnTheBeat == announcer.elapsed = Len(chats) * announcer.delay + announcer.time

\* C22 as the spec states it: the announcement emitted when k times the
\* delay of delta has accumulated (k >= 1) is the message at index k mod N,
\* and the emission resets the accumulated delta
C22_IndexKModN ==
    (Ticker /\ OnTheBeat /\ chats # <<>>) =>
        chats[Len(chats)] = Announcement(Len(chats) % Len(announcer.messages))

\* C22 amended: the k-th announcement (k >= 1) is the message at index
\* (k - 1) mod N, after it the index of the handler is k mod N, an
\* announcement is made by the frame step with which the delta accumulated
\* since the last one reaches the delay, and it resets that delta to zero
KthMessage ==
    Ticker =>
        /\ \A k \in 1 .. Len(chats) :
              chats[k] = Announcement((k - 1) % Len(announcer.messages))
        /\ announcer.idx = Len(chats) % Len(announcer.messages)
        /\ announcer.time < announcer.delay

Accumulates ==
    Ticker =>
        \/ /\ chats' = chats
           /\ announcer'.time > announcer.time
        \/ /\ Len(chats') = Len(chats) + 1
           /\ announcer'.time = 0
           /\ announcer.time + (announcer'.elapsed - announcer.elapsed)
                 >= announcer.delay

C22_KthMessage == []KthMessage /\ [][Accumulates]_vars

\* a ticker of two messages and delay 2 has made three announcements, the
\* third after a delta that overshot the delay
C22_Witness ==
    /\ announcer.enabled
    /\ Len(announcer.messages) = 2
    /\ announcer.delay = 2
    /\ Len(chats) = 3
    /\ announcer.elapsed > 3 * announcer.delay + announcer.time

\* the heartbeat loop has just taken a turn
JustWoken == hb.curr_time = hb.now

\* heartbeat STREAM_DATA packets of the bot on the wire
Heartbeats == Len(SelectSeq(sent, LAMBDA p : p = HeartbeatPacket))

\* C23 as the spec states it: when the loop has taken its turn T seconds
\* after the connection began to run, floor(T / heartbeat_interval)
\* heartbeats have been sent
C23_FloorOfT == JustWoken => Heartbeats = hb.now \div IntervalTicks

AtMostFloor ==
    /\ Heartbeats = nHeartbeats
    /\ Heartbeats <= hb.now \div IntervalTicks

Spaced ==
    IF nHeartbeats' = nHeartbeats + 1
    THEN /\ hb.delta + (hb'.curr_time - hb.curr_time) >= IntervalTicks
         /\ hb'.delta = 0
    ELSE /\ nHeartbeats' = nHeartbeats
         /\ hb'.delta < IntervalTicks

\* what the loop does keep: after T seconds of running at most floor(T /
\* heartbeat_interval) heartbeats have been sent; a heartbeat is sent by the
\* first turn of the loop at which the time accumulated since the last
\* heartbeat (or the start of the loop) has reached the interval, and it
\* resets that time to zero
HeartbeatsAtMostFloor == []AtMostFloor /\ [][Spaced]_vars

\* three intervals have passed and the loop, woken late now and then, has
\* just taken a turn with two heartbeats sent
HeartbeatLost ==
    /\ JustWoken
    /\ hb.now >= 3 * IntervalTicks
    /\ Heartbeats = 2

\* the streams of the bot in its registry entry
OwnStreams == {sid \in Sids : HasStream(Me, sid)}

\* C24 as the claim states it: the ids register_stream has returned are
\* all different, also when two calls overlap, and each is a key of the
\* bot's streams once its call has returned
C24_DistinctIds ==
    /\ \A i, j \in 1 .. Len(assigned) : i # j => assigned[i] # assigned[j]
    /\ Cardinality(OwnStreams) = Len(assigned)

\* __aexit__ has ended and its USER_LEAVE could not be sent
LeaveFailed == pc["main"] \in Ended /\ mainErr = "ConnectionResetError"

\* C25 as the spec states it: when the send of USER_LEAVE fails, the exit
\* still stops the three loop tasks, closes the writer and clears
\* is_connected
C25_BestEffortLeave ==
    LeaveFailed =>
        /\ \A t \in GroupTasks : pc[t] \in Ended
        /\ writerClosed
        /\ ~is_connected

\* unregister_stream returns to the body in this step
UnregisterReturns ==
    /\ pc["main"] = "drain"
    /\ ret["main"] = "unreg_done"
    /\ pc'["main"] = "running"

\* C26 as the spec states it: when unregister_stream(sid) returns, having
\* sent STREAM_UNREGISTER, sid is no stream of the bot any more, and a
\* character or chat stream id equal to sid is -1
C26_UnregisterDestroys ==
    [][UnregisterReturns =>
          LET sid == pending["main"].stream_id
              me == users'[user_info.unique_id] IN
          /\ pending["main"].type = "STREAM_UNREGISTER"
          /\ ~HasStream(me, sid)
          /\ me.character_stream_id # sid
          /\ me.chat_stream_id # sid]_vars

\* C27 as the spec states it: once the handshake is over, no packet the
\* server sends, a further HELLO included, changes the stored server_info
C27_ServerInfoImmutable == [][server_info' = server_info]_vars

\* C28 as the spec states it: after the first WELCOME no packet, a USER_INFO
\* about the bot and a further WELCOME included, changes the bot's user_info,
\* and every packet the bot sends has the unique_id of that WELCOME as source
C28_IdentityOnce ==
    [][/\ user_info' = user_info
       /\ Len(sent') > Len(sent) =>
              sent'[Len(sent')].source = Bot.unique_id]_vars

\* the step dispatches packet p, of the given type
Dispatch(p, type) == rx' = Append(rx, p) /\ p.type = type

\* the fields of a user that no UserInfo is kept in
Kept(user) == [user EXCEPT !.info = NoInfo]

\* the step changes the users as add_user(info) does on success: the entry
\* is a new User of that info, and the username is recorded once
AddsUser(info) ==
    /\ ~users[info.unique_id].present
    /\ users'[info.unique_id].present
    /\ users'[info.unique_id].info = info
    /\ Kept(users'[info.unique_id]) =
           [Kept(NoUser) EXCEPT !.present = TRUE]
    /\ \A u \in Uids \ {info.unique_id} : users'[u] = users[u]
    /\ global_stats'.user_count = global_stats.user_count + 1
    /\ global_stats'.usernames = global_stats.usernames \cup {info.username}

UpdateFrame ==
    \A p \in IdentityPackets :
        Dispatch(p, "USER_INFO") =>
            IF users[p.info.unique_id].present
            THEN /\ users'[p.info.unique_id].info = p.info
                 /\ Kept(users'[p.info.unique_id]) = Kept(users[p.info.unique_id])
                 /\ \A u \in Uids \ {p.info.unique_id} : users'[u] = users[u]
                 /\ global_stats' = global_stats
            ELSE AddsUser(p.info)

\* C29: the dispatch of a USER_INFO for a uid of the registry replaces that
\* user's info and nothing else: its streams, character and chat stream
\* ids, current_stream, distances and online_since, every other user and
\* the global statistics stay as they were; for a uid that is absent it
\* does what add_user does
C29_UpdateFrame == [][UpdateFrame]_vars

\* the info of the bot and of the peer were replaced: the bot has its two
\* streams, the peer the stream it has registered
C29_Witness ==
    /\ users[7].info.color_num = 5
    /\ users[7].chat_stream_id = 10
    /\ HasStream(users[7], 11)
    /\ users[42].info.username = "reep"
    /\ HasStream(users[42], 12)
    /\ global_stats.user_count = 2

\* users added by the step
Joining == {u \in Uids : ~users[u].present /\ users'[u].present}

AddUserOnce ==
    /\ \A p \in IdentityPackets :
          (Dispatch(p, "USER_JOIN") /\ p.source # user_info.unique_id) =>
              IF users[p.info.unique_id].present
              THEN /\ users' = users
                   /\ global_stats' = global_stats
                   /\ events' = events
                   /\ pc'["reader"] \in Ended
              ELSE /\ AddsUser(p.info)
                   /\ events' = Append(events,
                                       Event("user_join", p.source, NoStream))
    /\ global_stats'.user_count =
           global_stats.user_count + Cardinality(Joining)

\* C30: a USER_JOIN for a uid of the registry fails in add_user and changes
\* neither the users nor the global statistics, and no user_join is
\* emitted; a USER_JOIN for a new uid makes the entry and records the
\* username; and in every step user_count grows by the users joining
C30_AddUserOnce == [][AddUserOnce]_vars

\* the guest has joined and was counted, and the reader has failed on the
\* USER_JOIN of the peer, who was there
C30_Witness ==
    /\ users[0].present
    /\ global_stats.usernames = {"bot", "peer", "guest"}
    /\ global_stats.user_count = 3
    /\ rx[Len(rx)] = Packet("USER_JOIN", 42, 0, Peer, NoStream)
    /\ users[42].present
    /\ pc["reader"] \in Ended

\* the four kinds of distance
Meters == {"meters_walked", "meters_driven", "meters_sailed", "meters_flown"}

RECURSIVE SumOf(_, _, _)
SumOf(us, uids, kind) ==
    IF uids = {} THEN 0
    ELSE LET u == CHOOSE v \in uids : TRUE
         IN us[u][kind] + SumOf(us, uids \ {u}, kind)

\* the meters of a kind in the global statistics and on the users present
Total(gs, us, kind) ==
    gs[kind] + SumOf(us, {u \in Uids : us[u].present}, kind)

DeleteFolds ==
    \A p \in TravelPackets :
        Dispatch(p, "USER_LEAVE") =>
            IF Known(users, p.source)
            THEN /\ ~users'[p.source].present
                 /\ \A u \in Uids \ {p.source} : users'[u] = users[u]
                 /\ \A kind \in Meters :
                       /\ Total(global_stats', users', kind) =
                              Total(global_stats, users, kind)
                       /\ global_stats'[kind] =
                              global_stats[kind] + users[p.source][kind]
                 /\ Len(global_stats'.connection_times) =
                        Len(global_stats.connection_times) + 1
            ELSE /\ users' = users
                 /\ global_stats' = global_stats
                 /\ events' = events
                 /\ pc'["reader"] \in Ended

\* C31: the USER_LEAVE of a user of the registry removes that user and no
\* other, adds each of its four distances to the global one, so that the
\* total of each kind over the global statistics and the users is kept, and
\* appends one session duration; for a uid that is absent the delete fails
\* and nothing changes
C31_DeleteFolds == [][DeleteFolds]_vars

\* the peer has left with distance on its account, which is the global one
\* now, with one duration
C31_Witness ==
    /\ ~users[42].present
    /\ \E kind \in Meters : global_stats[kind] > 0
    /\ Len(global_stats.connection_times) = 1

\* the step dispatches p, a CharacterAttachStreamData of a known peer on its
\* character stream: the handler calls set_current_stream and nothing else
AttachDispatch(p) == DataDispatch(p, "CHARACTER") /\ p.data.kind = "attach"

\* C32 as the spec states it: set_current_stream stores the pair as the
\* user's current_stream whatever streams the user has, does not fail, and
\* changes no position, rotation or distance of any user
C32_CurrentStreamOnly ==
    [][\A p \in PeerPackets :
          AttachDispatch(p) =>
              /\ users' = [users EXCEPT ![p.source].current_stream =
                              [unique_id |-> p.data.source_id,
                               stream_id |-> p.data.stream_id]]
              /\ pc'["reader"] \notin Ended]_vars

\* C33 as the spec states it: the heartbeat a turn of the loop sends
\* carries as animation_time the time accumulated since the heartbeat
\* before it, which is the interval at least
C33_AnimationTime ==
    [][nHeartbeats' = nHeartbeats + 1 =>
          LET accumulated == hb.delta + (hb'.curr_time - hb.curr_time)
              animation_time == sent'[Len(sent')].data.animation_time
          IN /\ animation_time = accumulated
             /\ animation_time >= IntervalTicks]_vars

\* move_bot has returned to the body
MoveReturned ==
    /\ nCalls > 0
    /\ pc["main"] = "running"
    /\ pending["main"].type = "STREAM_DATA"

\* the place of move_bot's packet on the wire: the first one with its position
MoveSent ==
    CHOOSE i \in Indices(sent) :
        /\ sent[i] = pending["main"]
        /\ \A j \in 1 .. (i - 1) : sent[j] # pending["main"]

PositionKept ==
    MoveReturned =>
        /\ Me.streams[Me.character_stream_id].position =
               pending["main"].data.position
        /\ \A i \in Indices(sent) :
              (i > MoveSent /\ sent[i].type = "STREAM_DATA") =>
                  sent[i].data.position = pending["main"].data.position

\* the body's task writes in this step
MainWrites == pc["main"] # "drain" /\ pc'["main"] = "drain"

OneMovePacket ==
    (MainWrites /\ pending'["main"].type = "STREAM_DATA") =>
        /\ sent' = Append(sent, pending'["main"])
        /\ pending'["main"].data.position \in Moves

\* C34 as the spec states it: once move_bot(p) has returned the position of
\* the bot's character stream is p and every STREAM_DATA sent after the one
\* of move_bot, the heartbeats, carries p, however the heartbeat task runs,
\* its first run included; and move_bot writes one STREAM_DATA with p
C34_PositionKept == []PositionKept /\ [][OneMovePacket]_vars

\* the lines of a countdown of n seconds: the start, n down to 1, and GO!!!
Expected(n) ==
    <<Said("started", n)>> \o [i \in 1 .. n |-> Said("red", n + 1 - i)]
        \o <<Said("green", 0)>>

\* the countdown is over: the handler is removed and none of its
\* invocations is under way
Over ==
    /\ countdown.n > 0
    /\ ~countdown.listening
    /\ countdown.suspended = <<>>

\* C35 as the spec states it: the lines sent are the first of n, n - 1, ...,
\* 1, GO!!! at any time and all of them when the countdown is over, and
\* on_frame_step is removed once, also when an invocation starts while an
\* earlier one is suspended in send_chat
C35_CountsDown ==
    /\ countdown.n > 0 =>
          /\ Len(chats) <= Len(Expected(countdown.n))
          /\ chats = SubSeq(Expected(countdown.n), 1, Len(chats))
    /\ countdown.removed <= 1
    /\ Over => (chats = Expected(countdown.n) /\ countdown.removed = 1)

(***************************************************************************)
(* The running connection: streams registered again and unregistered       *)
(***************************************************************************)
\* the peer's registrations as the server relays them: stream id 12 under
\* each of the three types, a second character stream, and the unregisters
StreamPackets ==
    {Packet("STREAM_REGISTER", 42, s.origin_stream_id, NoInfo, s) :
        s \in {PeerStream("CHARACTER", 12, "default"),
               PeerStream("CHAT", 12, "chat"),
               PeerStream("ACTOR", 12, "fancy.truck"),
               PeerStream("CHARACTER", 13, "default")}}
    \cup {Packet("STREAM_UNREGISTER", 42, sid, NoInfo, NoStream) :
            sid \in {12, 13}}

StreamsSend == Relay(StreamPackets)

NextStreams ==
    \/ StreamsSend
    \/ ReaderRecv
    \/ ReaderEmitRegister

SpecStreams == InitRegistry /\ [][NextStreams]_vars

\* id is -1 or the key of a stream of the type in the user's streams
KeyOfType(user, id, type) ==
    id = -1 \/ (HasStream(user, id) /\ user.streams[id].type = type)

\* C36 as the spec states it: for every user, character_stream_id is -1 or
\* the key of a CHARACTER stream of the user's streams, and chat_stream_id
\* is -1 or the key of a CHAT stream of them, also after a stream id was
\* registered again with another type or one of two character streams was
\* unregistered
C36_StreamIdsTyped ==
    \A u \in Uids :
        users[u].present =>
            /\ KeyOfType(users[u], users[u].character_stream_id, "CHARACTER")
            /\ KeyOfType(users[u], users[u].chat_stream_id, "CHAT")

(***************************************************************************)
(* The running connection: the keys of the users and of their streams      *)
(***************************************************************************)
\* packets whose header and payload name different users and streams: a
\* character stream (42, 12) under the header's stream id 13, an actor
\* stream of the bot's in a packet of the peer's, the info of the guest in
\* packets of the peer's; and the peer's streams unregistered
KeyPackets ==
    {Packet("STREAM_REGISTER", 42, 13, NoInfo,
            PeerStream("CHARACTER", 12, "default")),
     Packet("STREAM_REGISTER", 42, 12, NoInfo,
            [PeerStream("ACTOR", 13, "fancy.truck")
                EXCEPT !.origin_source_id = 7]),
     Packet("USER_INFO", 42, 0, Guest, NoStream),
     Packet("USER_JOIN", 42, 0, Guest, NoStream),
     Packet("USER_INFO", 42, 0, [Peer EXCEPT !.username = "reep"], NoStream)}
    \cup {Packet("STREAM_UNREGISTER", 42, sid, NoInfo, NoStream) :
            sid \in {12, 13}}

KeysSend == Relay(KeyPackets)

\* the server relays packets while the body registers a stream of its own
NextKeys ==
    \/ KeysSend
    \/ ReaderRecv
    \/ ReaderEmitRegister
    \/ MainRegister
    \/ MainRegUserDone
    \/ \E t \in {"main", "reader"} : LockAcquired(t)

SpecKeys == InitRegistry /\ [][NextKeys]_vars

\* the user under key k names k, and each of its streams names k and the
\* key it is stored under
KeyConsistent(k) ==
    /\ users[k].info.unique_id = k
    /\ \A s \in Sids :
          HasStream(users[k], s) =>
              /\ users[k].streams[s].origin_source_id = k
              /\ users[k].streams[s].origin_stream_id = s

\* C37: the registry is key-consistent. Every entry users[k] has
\* info.unique_id = k, and every stream stored in users[k].streams under s
\* has origin_source_id = k and origin_stream_id = s, whether an inbound
\* STREAM_REGISTER added it or the bot's own register_stream
C37_KeyConsistent == \A k \in Uids : users[k].present => KeyConsistent(k)

\* the guest was added from a packet of the peer's, the peer's character
\* stream 12 from a packet for stream 13, and the bot registered a stream
\* of its own
C37_Witness ==
    /\ users[0].present
    /\ HasStream(users[42], 12)
    /\ ~HasStream(users[42], 13)
    /\ nCalls > 0
    /\ HasStream(users[7], regStream.origin_stream_id)
    /\ users[7].streams[regStream.origin_stream_id].type = "ACTOR"

\* the connect has failed and the failure has reached the caller: the main
\* task has ended with an exception before both streams were registered
ConnectFailed ==
    /\ pc["main"] \in {"failed", "cancelled"}
    /\ Len(assigned) < 2

\* open_connection has returned a reader and a writer: the reader task is
\* created right after it
SocketOpened == pc["reader"] # "init"

\* C38 as the spec states it: when the connect fails, on a refusal of the
\* handshake by the server or of the transport connection, nothing is left
\* behind: once the failure has reached the caller the reader task is not
\* running, a socket that was opened has been closed, and is_connected is
\* false
C38_NothingLeft ==
    ConnectFailed =>
        /\ "reader" \notin Alive
        /\ SocketOpened => writerClosed
        /\ ~is_connected

(***************************************************************************)
(* The running connection: the frame steps in time                         *)
(***************************************************************************)
\* the time observed, and the ticks a sleep may last beyond those asked for
MaxClock == 20
MaxLate == 2

\* (a variant of FrameDue that emits at every turn)
FrameAlways(delta) == TRUE

\* `if delta >= (1 / self.STABLE_FPS)`
FrameDue(delta) == delta >= FrameTicks

\* a tick of the clock: the loop wakes MaxLate ticks after its sleep is over
\* at the latest
FrameClockTick ==
    /\ fclock.now < MaxClock
    /\ fclock.now < fclock.due + MaxLate
    /\ fclock' = [fclock EXCEPT !.now = @ + 1]
    /\ UNCHANGED <<pc, ret, pending, cancelReq, driver, group, lock,
                   writerClosed, conn, net, logs, regStream, counters,
                   framing, emitter, client, hb, global_stats, countdown>>

\* a turn of __frame_step_loop after its sleep: the time since the last turn
\* is added to delta; when a frame is due frame_step is emitted with delta
\* and delta is reset; the loop sleeps again
FrameTurn ==
    /\ pc["frame"] = "sleep"
    /\ "frame" \notin cancelReq
    /\ fclock.now >= fclock.due
    /\ LET delta == fclock.delta + (fclock.now - fclock.curr_time)
           turned == [fclock EXCEPT !.curr_time = fclock.now,
                                    !.delta = delta,
                                    !.due = fclock.now + FrameSleepTicks]
           e == Emit(emitter, "frame_step")
       IN IF FrameDue(delta)
          THEN /\ emitter' = e.em
               /\ IF e.err
                  THEN /\ Raise("frame")
                       /\ fclock' = [turned EXCEPT !.emitted = Append(@, delta)]
                       /\ UNCHANGED <<tgEntered, exitType>>
                  ELSE /\ fclock' = [turned EXCEPT !.emitted = Append(@, delta),
                                                   !.delta = 0]
                       /\ UNCHANGED <<pc, cancelReq, group>>
          ELSE /\ fclock' = turned
               /\ UNCHANGED <<pc, cancelReq, group, emitter>>
    /\ UNCHANGED <<ret, pending, driver, lock, writerClosed, conn, net, logs,
                   regStream, counters, framing, client, hb, global_stats,
                   countdown>>

NextFrameClock ==
    \/ FrameClockTick
    \/ FrameTurn

SpecFrameClock == InitRegistry /\ [][NextFrameClock]_vars

\* the sum of the numbers of a sequence
RECURSIVE SumSeq(_)
SumSeq(seq) == IF seq = <<>> THEN 0 ELSE Head(seq) + SumSeq(Tail(seq))

\* every delta emitted is a frame long at least, and the deltas emitted and
\* the delta under way add up to the time from start_time to the loop's
\* last reading of the clock
FrameClockKept ==
    /\ \A i \in 1 .. Len(fclock.emitted) : fclock.emitted[i] >= FrameTicks
    /\ SumSeq(fclock.emitted) + fclock.delta
          = fclock.curr_time - fclock.start_time

\* a turn that emits leaves delta at zero
FrameReset ==
    Len(fclock'.emitted) > Len(fclock.emitted) => fclock'.delta = 0

\* C39: every frame_step carries a delta of 1 / STABLE_FPS (50 ms) at
\* least, delta is reset to zero at each emission, and no time is lost: the
\* deltas of the frame_step events emitted so far and the delta accumulated
\* add up to the time that has passed since the loop started, as the loop
\* has read it
C39_FrameClock == []FrameClockKept /\ [][FrameReset]_vars

\* two frame steps were emitted, one of them late, and time has passed
\* since the last
C39_Witness ==
    /\ Len(fclock.emitted) >= 2
    /\ \E i \in 1 .. Len(fclock.emitted) : fclock.emitted[i] > FrameTicks
    /\ fclock.delta > 0
    /\ pc["frame"] = "sleep"

(***************************************************************************)
(* The running connection: headers without a payload                       *)
(***************************************************************************)
\* packets of the peer and about the bot's own streams, with and without a
\* payload: a chat line and a CHAT of no bytes, the unregister of the bot's
\* character stream and of a stream the peer does not have, and an
\* unregister that carries a byte
HeaderPackets ==
    {Framed(CHAT, 42, 10, <<104>>), Framed(CHAT, 42, 10, <<>>),
     Framed(STREAM_UNREGISTER, 7, 11, <<>>),
     Framed(STREAM_UNREGISTER, 42, 12, <<>>),
     Framed(STREAM_UNREGISTER, 7, 10, <<104>>)}

\* the connection is running and the server has put one or two of the
\* packets on the stream
InitHeaders ==
    /\ pc = [RunningPc EXCEPT !["reader"] = "header"]
    /\ Connected
    /\ ClientConstructed
    /\ \E stream \in UNION {[1 .. n -> HeaderPackets] : n \in 1 .. MaxFramed} :
          framed = stream /\ wire = Bytes(stream)
    /\ header = NoHeader

\* packet_factory and `packet.payload = payload`: the packet of the class
\* of its type, as _parse_packet gets it
Dispatched(f) ==
    DataPacket(IF f.type = STREAM_UNREGISTER THEN "STREAM_UNREGISTER"
               ELSE "CHAT",
               f.source, f.stream_id,
               IF f.type = STREAM_UNREGISTER /\ f.payload = <<>>
               THEN NoPayload ELSE Text(f.payload))

\* read(h.size) has returned with buffer buf: the length check, then
\* _parse_packet, whose handlers of these packets send nothing
ParsePayload(h, buf) ==
    LET payload == Read(buf, h.size)
        p == Dispatched(Framed(h.type, h.source, h.stream_id, payload))
        r == ParsePacket(p)
        e == EmitAll(emitter, SubSeq(r.ev, Len(events) + 1, Len(r.ev)))
    IN /\ inbox' = Drop(buf, Len(payload))
       /\ IF Len(payload) # h.size
          THEN /\ Raise("reader")
               /\ UNCHANGED <<rx, users, global_stats, events, emitter>>
          ELSE /\ rx' = Append(rx, p)
               /\ users' = r.us
               /\ global_stats' = r.gs
               /\ events' = r.ev
               /\ emitter' = e.em
               /\ IF r.err \/ e.err
                  THEN Raise("reader")
                  ELSE /\ pc' = [pc EXCEPT !["reader"] = "header"]
                       /\ UNCHANGED <<cancelReq, tgErrors, tgAborting,
                                      tgParentCancel>>

\* a turn of __reader_loop: the header is read and checked, and the payload
\* read and the packet parsed unless read(size) has to wait for data
HeaderTurn ==
    /\ pc["reader"] = "header"
    /\ "reader" \notin cancelReq
    /\ Len(inbox) >= HeaderSize
    /\ LET h == Unpack(SubSeq(inbox, 1, HeaderSize))
           rest == Drop(inbox, HeaderSize)
       IN /\ header' = h
          /\ IF NoData(h)
             THEN /\ Raise("reader")
                  /\ inbox' = rest
                  /\ UNCHANGED <<rx, users, global_stats, events, emitter>>
             ELSE IF h.size = 0 \/ rest # <<>>
             THEN ParsePayload(h, rest)
             ELSE /\ pc' = [pc EXCEPT !["reader"] = "payload"]
                  /\ inbox' = rest
                  /\ UNCHANGED <<rx, users, global_stats, events, emitter,
                                 cancelReq, tgErrors, tgAborting,
                                 tgParentCancel>>
    /\ UNCHANGED <<ret, pending, driver, tgEntered, exitType, lock,
                   writerClosed, server_info, user_info, stream_id,
                   is_connected, nIn, sent, assigned, regStream, counters,
                   framed, wire, client, hb, countdown, fclock>>

\* read(size) was waiting for data and the buffer is no longer empty
PayloadTurn ==
    /\ pc["reader"] = "payload"
    /\ "reader" \notin cancelReq
    /\ inbox # <<>>
    /\ ParsePayload(header, inbox)
    /\ UNCHANGED <<ret, pending, driver, tgEntered, exitType, lock,
                   writerClosed, server_info, user_info, stream_id,
                   is_connected, nIn, sent, assigned, regStream, counters,
                   framing, client, hb, countdown, fclock>>

NextHeaders ==
    \/ Deliver
    \/ HeaderTurn
    \/ PayloadTurn

SpecHeaders == InitHeaders /\ [][NextHeaders]_vars

\* the header the reader's turn is about: the one it unpacks, or the one
\* whose payload it was waiting for
TurnHeader ==
    IF pc["reader"] = "header" /\ Len(inbox) >= HeaderSize
    THEN Unpack(SubSeq(inbox, 1, HeaderSize))
    ELSE header

\* a step of the reader: it takes bytes out of the buffer, or fails
ReaderTurns == Len(inbox') < Len(inbox) \/ pc'["reader"] # pc["reader"]

Untouched == users' = users /\ events' = events

\* the stream (source, stream_id) of the header is in the registry
Registered12(h) ==
    /\ h.source \in Uids
    /\ h.stream_id \in Sids
    /\ Known(users, h.source)
    /\ HasStream(users[h.source], h.stream_id)

ZeroSizeTurn ==
    ReaderTurns =>
        LET h == TurnHeader IN
        /\ (h.size = 0 /\ h.type # STREAM_UNREGISTER) =>
              /\ pc'["reader"] = "failed"
              /\ rx' = rx
              /\ Untouched
        /\ (h.size = 0 /\ h.type = STREAM_UNREGISTER /\ Registered12(h)) =>
              /\ pc'["reader"] = "header"
              /\ Len(rx') = Len(rx) + 1
              /\ ~HasStream(users'[h.source], h.stream_id)
              /\ \A u \in Uids, s \in Sids :
                    <<u, s>> # <<h.source, h.stream_id>> =>
                        users'[u].streams[s] = users[u].streams[s]
              /\ events' = Append(events,
                                  Event("stream_unregister", h.source, NoStream))
        /\ (h.size > 0 /\ h.type = STREAM_UNREGISTER) =>
              /\ pc'["reader"] \in {"failed", "payload"}
              /\ Untouched

====
